---------------------------- MODULE Spec2Model ----------------------------
(***************************************************************************)
(* FoodEx2 validation engine: the service (FoodEx2Service), the aggregator *)
(* (FoodEx2Validator), the structural validator (VBAValidator), the rule   *)
(* evaluator (BusinessRulesValidator, SoftRulesValidator) and the          *)
(* hierarchy resolver (HierarchyHelper).                                   *)
(*                                                                         *)
(* JavaScript strings are sequences of one-character strings, so that      *)
(* split, substring, includes, startsWith and the regular expressions are  *)
(* computed character by character, as the code computes them.             *)
(***************************************************************************)
EXTENDS Integers, Sequences, FiniteSets, TLC

\* `const name = value; body`: the value is computed, then the body runs with
\* the name bound to it.
With(value, Body(_)) == CASE value = value -> Body(value)

\* JavaScript null / undefined where a string is expected: a sequence that no
\* string equals (a string's elements are single characters).
Null == <<"null">>

\* undefined where an array of strings is expected.
NullList == <<Null>>

\* null / undefined where a row or a record is expected.
NoRow == [isNull |-> TRUE]

-----------------------------------------------------------------------------
(* Strings *)

UpperChars == {"A", "B", "C", "D", "E", "F", "G", "H", "I", "J", "K", "L", "M",
               "N", "O", "P", "Q", "R", "S", "T", "U", "V", "W", "X", "Y", "Z"}

LowerChars == {"a", "b", "c", "d", "e", "f", "g", "h", "i", "j", "k", "l", "m",
               "n", "o", "p", "q", "r", "s", "t", "u", "v", "w", "x", "y", "z"}

DigitChars == {"0", "1", "2", "3", "4", "5", "6", "7", "8", "9"}

\* String.prototype.toLowerCase, one character.
LowerOf(ch) ==
    CASE ch = "A" -> "a" [] ch = "B" -> "b" [] ch = "C" -> "c" [] ch = "D" -> "d"
      [] ch = "E" -> "e" [] ch = "F" -> "f" [] ch = "G" -> "g" [] ch = "H" -> "h"
      [] ch = "I" -> "i" [] ch = "J" -> "j" [] ch = "K" -> "k" [] ch = "L" -> "l"
      [] ch = "M" -> "m" [] ch = "N" -> "n" [] ch = "O" -> "o" [] ch = "P" -> "p"
      [] ch = "Q" -> "q" [] ch = "R" -> "r" [] ch = "S" -> "s" [] ch = "T" -> "t"
      [] ch = "U" -> "u" [] ch = "V" -> "v" [] ch = "W" -> "w" [] ch = "X" -> "x"
      [] ch = "Y" -> "y" [] ch = "Z" -> "z" [] OTHER -> ch

toLowerCase(s) == [i \in 1..Len(s) |-> LowerOf(s[i])]

\* String.prototype.trim() yields "" (falsy): every character is white space.
IsBlank(s) == \A i \in 1..Len(s) : s[i] = " "

\* String.prototype.startsWith
startsWith(s, prefix) ==
    /\ Len(s) >= Len(prefix)
    /\ \A i \in 1..Len(prefix) : s[i] = prefix[i]

\* String.prototype.includes (substring search)
strIncludes(s, pat) ==
    \E i \in 0..(Len(s) - Len(pat)) : \A j \in 1..Len(pat) : s[i + j] = pat[j]

\* Array.prototype.includes / Array.prototype.some(x => x === e)
arrIncludes(arr, e) == \E i \in 1..Len(arr) : arr[i] = e

\* String.prototype.substring(from, to), zero-based, to exclusive, clamped.
substring(s, from, to) ==
    With(IF to > Len(s) THEN Len(s) ELSE to, LAMBDA t :
        IF from >= t THEN <<>> ELSE SubSeq(s, from + 1, t))

\* The k-th separator of s, in order, with the position before the string
\* as the 0-th and the position after it as the last.
cutAt(s, at, k) ==
    IF k = 0 THEN 0
    ELSE IF k > Cardinality(at) THEN Len(s) + 1
    ELSE CHOOSE p \in at : Cardinality({ q \in at : q < p }) = k - 1

\* String.prototype.split on a one-character separator class: "a#b" gives
\* <<"a","b">>, "" gives <<"">>, a leading or trailing separator gives an
\* empty first or last piece.
split(s, seps) ==
    With({ i \in 1..Len(s) : s[i] \in seps }, LAMBDA at :
        [k \in 1..(Cardinality(at) + 1) |->
            SubSeq(s, cutAt(s, at, k - 1) + 1, cutAt(s, at, k) - 1)])

\* Array.prototype.join("")
RECURSIVE Concat(_)
Concat(arr) == IF arr = <<>> THEN <<>> ELSE Head(arr) \o Concat(Tail(arr))

\* /^[A-Z0-9]{5}$/.test(s)
IsCode5(s) ==
    /\ Len(s) = 5
    /\ \A i \in 1..5 : s[i] \in UpperChars \cup DigitChars

\* /^F\d{2}$/.test(s)
IsGroupId(s) ==
    /\ Len(s) = 3
    /\ s[1] = "F"
    /\ s[2] \in DigitChars
    /\ s[3] \in DigitChars

-----------------------------------------------------------------------------
(* The catalogue: the rows of the terms and term_hierarchies tables that   *)
(* the validators query, the forbidden-process table and the rule messages *)

\* One row of the terms table.
TermRow(code, name, type, level, deprecated, status, implicit) ==
    [term_code |-> code, extended_name |-> name, term_type |-> type,
     detail_level |-> level, deprecated |-> deprecated, status |-> status,
     implicit_facets |-> implicit]

\* terms: base terms of every term type, facet descriptors (one deprecated,
\* one dismissed), and three
\* derivatives whose implicit_facets carry the same three facets written with
\* '$', with '#' and with both.
TermsTable ==
    { TermRow(<<"A", "0", "0", "0", "J">>, <<"G", "r", "a", "i", "n", "s">>, "h", "H", FALSE, "APPROVED", <<>>),
      TermRow(<<"A", "0", "B", "X", "1">>, <<"B", "a", "k", "e", "r", "y">>, "h", "H", FALSE, "APPROVED", <<>>),
      TermRow(<<"A", "0", "0", "0", "L">>, <<"R", "y", "e">>, "r", "E", FALSE, "APPROVED", <<>>),
      TermRow(<<"A", "0", "0", "0", "M">>, <<"B", "a", "r", "l", "e", "y">>, "r", "E", FALSE, "APPROVED", <<>>),
      TermRow(<<"A", "0", "1", "D", "J">>, <<"R", "y", "e", " ", "f", "l", "o", "u", "r">>, "d", "E", FALSE, "APPROVED",
              <<"F", "2", "7", ".", "A", "0", "0", "0", "L", "$", "F", "2", "8", ".", "A", "0", "7", "K", "Q", "$", "F", "0", "3", ".", "A", "0", "6", "J", "D">>),
      TermRow(<<"A", "0", "1", "D", "K">>, <<"R", "y", "e", " ", "b", "r", "a", "n">>, "d", "E", FALSE, "APPROVED",
              <<"F", "2", "7", ".", "A", "0", "0", "0", "L", "#", "F", "2", "8", ".", "A", "0", "7", "K", "Q", "#", "F", "0", "3", ".", "A", "0", "6", "J", "D">>),
      TermRow(<<"A", "0", "1", "D", "L">>, <<"D", "r", "i", "e", "d", " ", "r", "y", "e">>, "d", "E", FALSE, "APPROVED",
              <<"F", "2", "7", ".", "A", "0", "0", "0", "L", "$", "F", "2", "8", ".", "A", "0", "7", "K", "Q", "#", "F", "0", "3", ".", "A", "0", "6", "J", "D">>),
      TermRow(<<"A", "0", "1", "D", "M">>, <<"R", "y", "e", " ", "f", "l", "a", "k", "e", "s">>, "d", "E", FALSE, "APPROVED",
              <<"F", "2", "8", ".", "A", "0", "7", "K", "Q", "$", "F", "2", "8", ".", "A", "0", "7", "K", "X">>),
      TermRow(<<"A", "0", "B", "6", "L">>, <<"S", "a", "u", "c", "e">>, "c", "E", FALSE, "APPROVED", <<>>),
      TermRow(<<"A", "0", "B", "6", "M">>, <<"S", "o", "u", "p">>, "s", "E", FALSE, "APPROVED", <<>>),
      TermRow(<<"A", "0", "E", "T", "Y">>, <<"O", "t", "h", "e", "r", " ", "r", "y", "e">>, "n", "E", FALSE, "APPROVED", <<>>),
      TermRow(<<"A", "0", "E", "T", "Z">>, <<"O", "t", "h", "e", "r", " ", "s", "a", "l", "t", "e", "d", " ", "r", "y", "e">>, "n", "E", FALSE, "APPROVED",
              <<"F", "0", "4", ".", "A", "0", "F", "6", "E">>),
      TermRow(<<"A", "0", "D", "P", "R">>, <<"S", "p", "e", "l", "t">>, "r", "E", TRUE, "APPROVED", <<>>),
      TermRow(<<"A", "0", "D", "S", "M">>, <<"E", "m", "m", "e", "r">>, "r", "E", FALSE, "DISMISSED", <<>>),
      TermRow(<<"A", "0", "7", "7", "V">>, <<"C", "a", "t", "t", "l", "e">>, "f", "E", FALSE, "APPROVED", <<>>),
      TermRow(<<"A", "0", "7", "7", "W">>, <<"S", "h", "e", "e", "p">>, "f", "E", FALSE, "APPROVED", <<>>),
      TermRow(<<"A", "0", "7", "X", "S">>, <<"P", "r", "o", "c", "e", "s", "s", "e", "d">>, "f", "E", FALSE, "APPROVED", <<>>),
      TermRow(<<"A", "0", "7", "K", "Q">>, <<"F", "r", "e", "e", "z", "i", "n", "g">>, "f", "E", FALSE, "APPROVED", <<>>),
      TermRow(<<"A", "0", "7", "K", "X">>, <<"C", "h", "i", "l", "l", "i", "n", "g">>, "f", "E", FALSE, "APPROVED", <<>>),
      TermRow(<<"A", "0", "7", "L", "G">>, <<"J", "u", "i", "c", "i", "n", "g">>, "f", "E", FALSE, "APPROVED", <<>>),
      TermRow(<<"A", "0", "7", "L", "N">>, <<"C", "u", "r", "i", "n", "g">>, "f", "E", TRUE, "APPROVED", <<>>),
      TermRow(<<"A", "0", "7", "L", "P">>, <<"P", "i", "c", "k", "l", "i", "n", "g">>, "f", "E", FALSE, "DISMISSED", <<>>),
      TermRow(<<"A", "0", "C", "0", "D">>, <<"P", "o", "w", "d", "e", "r">>, "f", "E", FALSE, "APPROVED", <<>>),
      TermRow(<<"A", "0", "6", "J", "D">>, <<"S", "o", "l", "i", "d">>, "f", "E", FALSE, "APPROVED", <<>>),
      TermRow(<<"A", "0", "F", "6", "E">>, <<"S", "a", "l", "t">>, "f", "E", FALSE, "APPROVED", <<>>),
      TermRow(<<"A", "0", "F", "6", "F">>, <<"S", "u", "g", "a", "r">>, "f", "E", FALSE, "APPROVED", <<>>) }

\* One row of the term_hierarchies table; the parent_code of a root is NULL.
HierRow(code, hierarchy, parent) ==
    [term_code |-> code, hierarchy_code |-> hierarchy, parent_code |-> parent]

TermHierarchiesTable ==
    { HierRow(<<"A", "0", "0", "0", "J">>, <<"r", "e", "p", "o", "r", "t">>, Null), HierRow(<<"A", "0", "0", "0", "J">>, <<"e", "x", "p", "o">>, Null),
      HierRow(<<"A", "0", "B", "X", "1">>, <<"r", "e", "p", "o", "r", "t">>, Null),
      HierRow(<<"A", "0", "0", "0", "L">>, <<"r", "e", "p", "o", "r", "t">>, <<"A", "0", "0", "0", "J">>), HierRow(<<"A", "0", "0", "0", "L">>, <<"e", "x", "p", "o">>, <<"A", "0", "0", "0", "J">>),
      HierRow(<<"A", "0", "0", "0", "L">>, <<"r", "a", "c", "s", "o", "u", "r", "c", "e">>, Null),
      HierRow(<<"A", "0", "0", "0", "M">>, <<"r", "e", "p", "o", "r", "t">>, <<"A", "0", "0", "0", "L">>), HierRow(<<"A", "0", "0", "0", "M">>, <<"r", "a", "c", "s", "o", "u", "r", "c", "e">>, <<"A", "0", "0", "0", "L">>),
      HierRow(<<"A", "0", "1", "D", "J">>, <<"r", "e", "p", "o", "r", "t">>, <<"A", "0", "0", "0", "J">>),
      HierRow(<<"A", "0", "1", "D", "K">>, <<"r", "e", "p", "o", "r", "t">>, <<"A", "0", "0", "0", "J">>),
      HierRow(<<"A", "0", "1", "D", "L">>, <<"r", "e", "p", "o", "r", "t">>, <<"A", "0", "0", "0", "J">>),
      HierRow(<<"A", "0", "1", "D", "M">>, <<"r", "e", "p", "o", "r", "t">>, <<"A", "0", "1", "D", "J">>),
      HierRow(<<"A", "0", "B", "6", "L">>, <<"r", "e", "p", "o", "r", "t">>, <<"A", "0", "B", "X", "1">>),
      HierRow(<<"A", "0", "B", "6", "M">>, <<"r", "e", "p", "o", "r", "t">>, <<"A", "0", "B", "X", "1">>),
      HierRow(<<"A", "0", "E", "T", "Y">>, <<"r", "e", "p", "o", "r", "t">>, <<"A", "0", "0", "0", "J">>),
      HierRow(<<"A", "0", "E", "T", "Z">>, <<"r", "e", "p", "o", "r", "t">>, <<"A", "0", "0", "0", "J">>),
      HierRow(<<"A", "0", "D", "P", "R">>, <<"r", "e", "p", "o", "r", "t">>, <<"A", "0", "0", "0", "J">>),
      HierRow(<<"A", "0", "D", "S", "M">>, <<"r", "e", "p", "o", "r", "t">>, <<"A", "0", "0", "0", "J">>),
      HierRow(<<"A", "0", "7", "7", "V">>, <<"s", "o", "u", "r", "c", "e">>, Null), HierRow(<<"A", "0", "7", "7", "W">>, <<"s", "o", "u", "r", "c", "e">>, Null),
      HierRow(<<"A", "0", "7", "X", "S">>, <<"p", "r", "o", "c", "e", "s", "s">>, Null),
      HierRow(<<"A", "0", "7", "K", "Q">>, <<"p", "r", "o", "c", "e", "s", "s">>, <<"A", "0", "7", "X", "S">>),
      HierRow(<<"A", "0", "7", "K", "X">>, <<"p", "r", "o", "c", "e", "s", "s">>, <<"A", "0", "7", "X", "S">>),
      HierRow(<<"A", "0", "7", "L", "G">>, <<"p", "r", "o", "c", "e", "s", "s">>, <<"A", "0", "7", "X", "S">>),
      HierRow(<<"A", "0", "7", "L", "N">>, <<"p", "r", "o", "c", "e", "s", "s">>, <<"A", "0", "7", "X", "S">>),
      HierRow(<<"A", "0", "7", "L", "P">>, <<"p", "r", "o", "c", "e", "s", "s">>, <<"A", "0", "7", "X", "S">>),
      HierRow(<<"A", "0", "C", "0", "D">>, <<"s", "t", "a", "t", "e">>, Null), HierRow(<<"A", "0", "6", "J", "D">>, <<"s", "t", "a", "t", "e">>, Null),
      HierRow(<<"A", "0", "F", "6", "E">>, <<"i", "n", "g", "r", "e", "d">>, Null), HierRow(<<"A", "0", "F", "6", "F">>, <<"i", "n", "g", "r", "e", "d">>, Null) }

\* db.get('SELECT ... FROM terms WHERE term_code = ?'): the row or undefined.
dbTerm(code) ==
    IF \E t \in TermsTable : t.term_code = code
    THEN CHOOSE t \in TermsTable : t.term_code = code
    ELSE NoRow

\* db.get('SELECT ... FROM term_hierarchies WHERE term_code = ? AND
\* hierarchy_code = ?'): the row or undefined ((term_code, hierarchy_code) is
\* the table's key).
dbHierRow(code, hierarchy) ==
    IF \E h \in TermHierarchiesTable : h.term_code = code /\ h.hierarchy_code = hierarchy
    THEN CHOOSE h \in TermHierarchiesTable :
             h.term_code = code /\ h.hierarchy_code = hierarchy
    ELSE NoRow

\* A forbidden-process record as loadForbiddenProcesses builds it; ordinal
\* codes are kept in tenths (10 is 1.0, 21 is 2.1) so that they stay integers.
ForbiddenRow(root, proc, ordinalTenths) ==
    [rootGroupCode |-> root, forbiddenProcessCode |-> proc, ordinalCode |-> ordinalTenths]

ForbiddenProcessesTable ==
    << ForbiddenRow(<<"A", "0", "0", "0", "J">>, <<"A", "0", "7", "L", "G">>, 21),
       ForbiddenRow(<<"A", "0", "1", "D", "J">>, <<"A", "0", "7", "K", "Q">>, 10),
       ForbiddenRow(<<"A", "0", "1", "D", "J">>, <<"A", "0", "7", "K", "X">>, 10),
       ForbiddenRow(<<"A", "0", "1", "D", "L">>, <<"A", "0", "7", "K", "X">>, 23) >>

\* The rule-message table when warningMessages.txt cannot be read.
getDefaultWarningMessages ==
    [r \in {"BR01", "BR03", "BR04", "BR05", "BR06", "BR07", "BR08", "BR10", "BR11",
            "BR12", "BR13", "BR14", "BR15", "BR16", "BR17", "BR19", "BR20", "BR21",
            "BR22", "BR23", "BR24", "BR25", "BR26", "BR27", "BR28", "BR29", "BR30",
            "BR31"} |->
        [severity |->
            CASE r \in {"BR10", "BR11", "BR12", "BR15", "BR23"} -> "LOW"
              [] r = "BR22" -> "NONE"
              [] r \in {"BR29", "BR30", "BR31"} -> "ERROR"
              [] OTHER -> "HIGH"]]

-----------------------------------------------------------------------------
(* VBAValidator: structural validation *)

SINGLE_CARDINALITY_GROUPS ==
    <<<<"F", "0", "1">>, <<"F", "0", "2">>, <<"F", "0", "3">>, <<"F", "0", "7">>, <<"F", "1", "1">>, <<"F", "2", "2">>, <<"F", "2", "4">>, <<"F", "2", "6">>, <<"F", "3", "0">>,
      <<"F", "3", "2">>, <<"F", "3", "4">>>>

\* A warning object: the rule id, the severity, the type and the facet or
\* term it carries (the facet / involvedTerms property; "" when it has none).
Warning(rule, severity, type, about) ==
    [rule |-> rule, severity |-> severity, type |-> type, about |-> about]

\* checkBaseTerm as it would be without the test of the code's format: every
\* code goes to the catalogue.
checkBaseTermLookupOnly(baseTermCode) ==
    With(dbTerm(baseTermCode), LAMBDA row :
        IF row = NoRow
        THEN [valid |-> FALSE, term |-> NoRow,
              warnings |-> <<Warning("VBA-NOTFOUND", "ERROR", "NOT_FOUND", <<>>)>>]
        ELSE [valid |-> TRUE,
              term |-> [code |-> row.term_code, name |-> row.extended_name,
                        type |-> row.term_type, detail_level |-> row.detail_level,
                        deprecated |-> row.deprecated,
                        dismissed |-> (row.status = "DISMISSED"),
                        implicit_facets |-> row.implicit_facets,
                        term_type |-> row.term_type],
              warnings |-> <<>>])

\* checkBaseTerm: the { valid, term } it returns and the warnings it pushes.
\* The term is the row as the SELECT names its columns.
checkBaseTerm(baseTermCode) ==
    IF ~IsCode5(baseTermCode)
    THEN [valid |-> FALSE, term |-> NoRow,
          warnings |-> <<Warning("VBA-STRUCT", "ERROR", "STRUCTURE", <<>>)>>]
    ELSE With(dbTerm(baseTermCode), LAMBDA row :
             IF row = NoRow
             THEN [valid |-> FALSE, term |-> NoRow,
                   warnings |-> <<Warning("VBA-NOTFOUND", "ERROR", "NOT_FOUND", <<>>)>>]
             ELSE [valid |-> TRUE,
                   term |-> [code |-> row.term_code, name |-> row.extended_name,
                             type |-> row.term_type, detail_level |-> row.detail_level,
                             deprecated |-> row.deprecated,
                             dismissed |-> (row.status = "DISMISSED"),
                             implicit_facets |-> row.implicit_facets,
                             term_type |-> row.term_type],
                   warnings |-> <<>>])

\* parseFacetString: split on # or $, drop the pieces that trim to "".
parseFacetString(facetString) ==
    IF facetString = <<>> THEN <<>>
    ELSE SelectSeq(split(facetString, {"#", "$"}), LAMBDA f : ~IsBlank(f))

\* The warnings checkCorrectFacet pushes for one facet (none: well formed).
checkOneFacet(facet) ==
    With(split(facet, {"."}), LAMBDA parts :
        IF Len(parts) # 2
        THEN <<Warning("VBA-FORMAT", "ERROR", "STRUCTURE", facet)>>
        ELSE IF ~IsGroupId(parts[1])
        THEN <<Warning("VBA-GROUP", "ERROR", "STRUCTURE", facet)>>
        ELSE IF ~IsCode5(parts[2])
        THEN <<Warning("VBA-DESCRIPTOR", "ERROR", "STRUCTURE", facet)>>
        ELSE <<>>)

\* checkCorrectFacet: the warnings pushed, facet by facet; it returns isValid,
\* which is true iff it pushed none.
RECURSIVE checkCorrectFacetWarnings(_)
checkCorrectFacetWarnings(facets) ==
    IF facets = <<>> THEN <<>>
    ELSE checkOneFacet(Head(facets)) \o checkCorrectFacetWarnings(Tail(facets))

checkCorrectFacet(facets) == checkCorrectFacetWarnings(facets) = <<>>

\* VBAValidator.getImplicitFacets
getImplicitFacets(term) ==
    IF term.implicit_facets = <<>> THEN <<>>
    ELSE SelectSeq(split(term.implicit_facets, {"$"}), LAMBDA f : f # <<>>)

\* checkAndRemoveImplicitFacets as it would be if it reported the implicit
\* facets and kept them.
checkAndKeepImplicitFacets(explicitFacets, implicitFacets) ==
    With(\E i \in 1..Len(explicitFacets) :
         arrIncludes(implicitFacets, explicitFacets[i]), LAMBDA removed :
        [cleanedFacets |-> explicitFacets, implicitRemoved |-> removed,
         warnings |-> IF removed
                      THEN <<Warning("VBA-IMPLICIT", "HIGH", "IMPLICIT_REMOVED", <<>>)>>
                      ELSE <<>>])

\* checkAndRemoveImplicitFacets: { cleanedFacets, implicitRemoved } and the
\* warning it pushes.
checkAndRemoveImplicitFacets(explicitFacets, implicitFacets) ==
    With(SelectSeq(explicitFacets, LAMBDA f : ~arrIncludes(implicitFacets, f)), LAMBDA cleaned :
    With(\E i \in 1..Len(explicitFacets) :
         arrIncludes(implicitFacets, explicitFacets[i]), LAMBDA removed :
        [cleanedFacets |-> cleaned, implicitRemoved |-> removed,
         warnings |-> IF removed
                      THEN <<Warning("VBA-IMPLICIT", "HIGH", "IMPLICIT_REMOVED", <<>>)>>
                      ELSE <<>>]))

\* hierarchyMap[groupId] || groupId.toLowerCase()
hierarchyMap(groupId) ==
    CASE groupId = <<"F", "0", "1">> -> <<"s", "o", "u", "r", "c", "e">>      [] groupId = <<"F", "0", "2">> -> <<"p", "a", "r", "t">>
      [] groupId = <<"F", "0", "3">> -> <<"s", "t", "a", "t", "e">>       [] groupId = <<"F", "0", "4">> -> <<"i", "n", "g", "r", "e", "d">>
      [] groupId = <<"F", "0", "6">> -> <<"m", "e", "d", "i", "u", "m">>      [] groupId = <<"F", "0", "7">> -> <<"f", "a", "t">>
      [] groupId = <<"F", "0", "8">> -> <<"s", "w", "e", "e", "t">>       [] groupId = <<"F", "0", "9">> -> <<"f", "o", "r", "t">>
      [] groupId = <<"F", "1", "0">> -> <<"q", "u", "a", "l">>        [] groupId = <<"F", "1", "1">> -> <<"a", "l", "c", "o", "h", "o", "l">>
      [] groupId = <<"F", "1", "2">> -> <<"d", "o", "u", "g", "h">>       [] groupId = <<"F", "1", "7">> -> <<"c", "o", "o", "k", "e", "x", "t">>
      [] groupId = <<"F", "1", "8">> -> <<"p", "a", "c", "k", "f", "o", "r", "m", "a", "t">>  [] groupId = <<"F", "1", "9">> -> <<"p", "a", "c", "k", "m", "a", "t">>
      [] groupId = <<"F", "2", "0">> -> <<"p", "a", "r", "t", "c", "o", "n">>     [] groupId = <<"F", "2", "1">> -> <<"p", "r", "o", "d">>
      [] groupId = <<"F", "2", "2">> -> <<"p", "l", "a", "c", "e">>       [] groupId = <<"F", "2", "3">> -> <<"t", "a", "r", "g", "c", "o", "n">>
      [] groupId = <<"F", "2", "4">> -> <<"u", "s", "e">>         [] groupId = <<"F", "2", "5">> -> <<"r", "i", "s", "k", "i", "n", "g", "r", "e", "d">>
      [] groupId = <<"F", "2", "6">> -> <<"g", "e", "n">>         [] groupId = <<"F", "2", "7">> -> <<"r", "a", "c", "s", "o", "u", "r", "c", "e">>
      [] groupId = <<"F", "2", "8">> -> <<"p", "r", "o", "c", "e", "s", "s">>     [] groupId = <<"F", "2", "9">> -> <<"f", "p", "u", "r", "p", "o", "s", "e">>
      [] groupId = <<"F", "3", "0">> -> <<"r", "e", "p", "l", "e", "v">>      [] groupId = <<"F", "3", "1">> -> <<"a", "n", "i", "m", "a", "g", "e">>
      [] groupId = <<"F", "3", "2">> -> <<"g", "e", "n", "d", "e", "r">>      [] groupId = <<"F", "3", "3">> -> <<"l", "e", "g", "i", "s">>
      [] groupId = <<"F", "3", "4">> -> <<"h", "o", "s", "t", "s", "a", "m", "p", "l", "e", "d">>
      [] OTHER -> toLowerCase(groupId)

\* facet.split('.')[0] and facet.split('.')[1]
groupOf(facet) == split(facet, {"."})[1]
descriptorOf(facet) == split(facet, {"."})[2]

\* validateFacetDescriptor: the warnings it pushes (none: it returns true).
\* The descriptor looked up in terms only, its hierarchy not asked for.
validateFacetDescriptorLookupOnly(facetCode) ==
    IF dbTerm(descriptorOf(facetCode)) = NoRow
    THEN <<Warning("VBA-FACET404", "ERROR", "NOT_FOUND", facetCode)>>
    ELSE <<>>

validateFacetDescriptor(facetCode) ==
    With(groupOf(facetCode), LAMBDA groupId :
    With(descriptorOf(facetCode), LAMBDA descriptor :
        IF dbTerm(descriptor) = NoRow
        THEN <<Warning("VBA-FACET404", "ERROR", "NOT_FOUND", facetCode)>>
        ELSE IF dbHierRow(descriptor, hierarchyMap(groupId)) = NoRow
        THEN <<Warning("VBA-CATEGORY", "ERROR", "WRONG_CATEGORY", facetCode)>>
        ELSE <<>>))

\* Step 6 of validateFoodEx2Code: the warnings of every cleaned facet, in order.
RECURSIVE descriptorWarnings(_)
descriptorWarnings(facets) ==
    IF facets = <<>> THEN <<>>
    ELSE validateFacetDescriptor(Head(facets)) \o descriptorWarnings(Tail(facets))

\* Step 6 of validateFoodEx2Code: the facets whose descriptor validated.
validatedFacetsOf(cleanedFacets) ==
    SelectSeq(cleanedFacets, LAMBDA f : validateFacetDescriptor(f) = <<>>)

\* The keys of the facetGroups object in insertion order: each group at its
\* first occurrence.
RECURSIVE groupsInOrder(_, _)
groupsInOrder(facets, seen) ==
    IF facets = <<>> THEN <<>>
    ELSE With(groupOf(Head(facets)), LAMBDA g :
             IF arrIncludes(seen, g) THEN groupsInOrder(Tail(facets), seen)
             ELSE <<g>> \o groupsInOrder(Tail(facets), Append(seen, g)))

countGroup(facets, g) == Len(SelectSeq(facets, LAMBDA f : groupOf(f) = g))

\* checkSingleCardinalityFacets: one warning per single-cardinality group that
\* occurs more than once.
RECURSIVE cardinalityWarnings(_, _)
cardinalityWarnings(facets, groups) ==
    IF groups = <<>> THEN <<>>
    ELSE (IF arrIncludes(SINGLE_CARDINALITY_GROUPS, Head(groups))
             /\ countGroup(facets, Head(groups)) > 1
          THEN <<Warning("VBA-CARDINALITY", "HIGH", "CARDINALITY_VIOLATION", Head(groups))>>
          ELSE <<>>) \o cardinalityWarnings(facets, Tail(groups))

checkSingleCardinalityFacets(facets) ==
    cardinalityWarnings(facets, groupsInOrder(facets, <<>>))

\* checkDuplicateFacets: one warning per facet of the duplicates Set, in the
\* order the Set received them.
RECURSIVE duplicatesInOrder(_, _, _)
duplicatesInOrder(facets, seen, dups) ==
    IF facets = <<>> THEN dups
    ELSE With(Head(facets), LAMBDA f :
             duplicatesInOrder(Tail(facets),
                 IF arrIncludes(seen, f) THEN seen ELSE Append(seen, f),
                 IF arrIncludes(seen, f) /\ ~arrIncludes(dups, f)
                 THEN Append(dups, f) ELSE dups))

checkDuplicateFacets(facets) ==
    With(duplicatesInOrder(facets, <<>>, <<>>), LAMBDA dups :
        [i \in 1..Len(dups) |-> Warning("VBA-DUPLICATE", "HIGH", "DUPLICATE_FACET", dups[i])])

\* buildFacetString as it would be with one separator for every facet.
buildFacetStringOneSeparator(facets) ==
    Concat([i \in 1..Len(facets) |-> <<"#">> \o facets[i]])

\* buildFacetString: '#' before the first facet, '$' before each later one.
buildFacetString(facets) ==
    Concat([i \in 1..Len(facets) |-> (IF i = 1 THEN <<"#">> ELSE <<"$">>) \o facets[i]])

\* Steps 4 to 9 of validateFoodEx2Code, on a base term that was found and
\* facets that are well formed.
validateWellFormed(baseTermCode, facetString, term, facets) ==
    With(checkAndRemoveImplicitFacets(facets, getImplicitFacets(term)), LAMBDA removal :
    With(validatedFacetsOf(removal.cleanedFacets), LAMBDA validatedFacets :
    With(removal.warnings
         \o descriptorWarnings(removal.cleanedFacets)
         \o checkSingleCardinalityFacets(validatedFacets)
         \o checkDuplicateFacets(validatedFacets), LAMBDA warnings :
        [valid |-> \A i \in 1..Len(warnings) : warnings[i].severity # "ERROR",
         warnings |-> warnings,
         originalCode |-> baseTermCode \o facetString,
         cleanedCode |-> IF removal.implicitRemoved
                         THEN baseTermCode \o buildFacetString(validatedFacets)
                         ELSE Null,
         cleanedFacets |-> validatedFacets, baseTerm |-> term])))

\* validateFoodEx2Code: the object it returns. cleanedFacets is undefined on
\* the two early returns.
validateFoodEx2Code(baseTermCode, facetString) ==
    With(checkBaseTerm(baseTermCode), LAMBDA baseTermResult :
    With(parseFacetString(facetString), LAMBDA facets :
        IF ~baseTermResult.valid
        THEN [valid |-> FALSE, warnings |-> baseTermResult.warnings,
              originalCode |-> baseTermCode \o facetString, cleanedCode |-> Null,
              cleanedFacets |-> NullList, baseTerm |-> NoRow]
        ELSE IF ~checkCorrectFacet(facets)
        THEN [valid |-> FALSE, warnings |-> checkCorrectFacetWarnings(facets),
              originalCode |-> baseTermCode \o facetString, cleanedCode |-> Null,
              cleanedFacets |-> NullList, baseTerm |-> baseTermResult.term]
        ELSE validateWellFormed(baseTermCode, facetString, baseTermResult.term, facets)))

-----------------------------------------------------------------------------
(* HierarchyHelper: the hierarchy resolver and its ancestor cache.  A cache *)
(* is a function from cache keys to ancestor lists; every operation that    *)
(* can write it returns the cache it leaves with its result.                *)

\* `${termCode}:${hierarchyCode}`
cacheKey(termCode, hierarchyCode) == termCode \o <<":">> \o hierarchyCode

\* The rows of getAncestors' recursive query from `code` upwards: the
\* parent_code of each row met, the NULL of a root's row included; the walk
\* ends at a code that has no row in the hierarchy.
RECURSIVE ancestorRows(_, _, _)
ancestorRows(code, hierarchyCode, fuel) ==
    With(dbHierRow(code, hierarchyCode), LAMBDA row :
        IF fuel = 0 \/ code = Null \/ row = NoRow THEN <<>>
        ELSE <<row.parent_code>> \o ancestorRows(row.parent_code, hierarchyCode, fuel - 1))

\* The query of getAncestors; no hierarchy of the catalogue is deeper than
\* its number of rows.
queryAncestors(termCode, hierarchyCode) ==
    ancestorRows(termCode, hierarchyCode, Cardinality(TermHierarchiesTable))

\* getAncestors: the cached array when the key is cached, else the query's
\* result, which it caches. r is the array it returns, which IS the cached
\* array (the same object).
getAncestors(cache, termCode, hierarchyCode) ==
    With(cacheKey(termCode, hierarchyCode), LAMBDA key :
        IF key \in DOMAIN cache
        THEN [r |-> cache[key], c |-> cache]
        ELSE With(queryAncestors(termCode, hierarchyCode), LAMBDA anc :
                 [r |-> anc, c |-> (key :> anc) @@ cache]))

\* isChildOf without its first line: the term is looked for among its own
\* ancestors.
isChildOfNoSelfTest(cache, childCode, parentCode, hierarchyCode) ==
    With(getAncestors(cache, childCode, hierarchyCode), LAMBDA ga :
        [r |-> arrIncludes(ga.r, parentCode), c |-> ga.c])

isChildOf(cache, childCode, parentCode, hierarchyCode) ==
    IF childCode = parentCode THEN [r |-> FALSE, c |-> cache]
    ELSE With(getAncestors(cache, childCode, hierarchyCode), LAMBDA ga :
             [r |-> arrIncludes(ga.r, parentCode), c |-> ga.c])

isChildOfAny(cache, childCode, parentCodes, hierarchyCode) ==
    With(getAncestors(cache, childCode, hierarchyCode), LAMBDA ga :
        [r |-> \E i \in 1..Len(parentCodes) : arrIncludes(ga.r, parentCodes[i]),
         c |-> ga.c])

isParentOf(cache, parentCode, childCode, hierarchyCode) ==
    isChildOf(cache, childCode, parentCode, hierarchyCode)

belongsToHierarchy(termCode, hierarchyCode) == dbHierRow(termCode, hierarchyCode) # NoRow

getParent(termCode, hierarchyCode) ==
    With(dbHierRow(termCode, hierarchyCode), LAMBDA row :
        IF row = NoRow THEN Null ELSE row.parent_code)

\* parent1 && parent2 && parent1 === parent2, as a truth value
areSiblings(term1Code, term2Code, hierarchyCode) ==
    With(getParent(term1Code, hierarchyCode), LAMBDA parent1 :
    With(getParent(term2Code, hierarchyCode), LAMBDA parent2 :
        parent1 # Null /\ parent2 # Null /\ parent1 = parent2))

isRawCommodity(term) == term.type = "r"
isDerivative(term) == term.type = "d"
isComposite(term) == term.type = "c" \/ term.type = "s"
isHierarchyTerm(term) == term.detail_level = "H"
isFacetTerm(term) == term.term_type = "f"
isNonSpecific(term) == term.term_type = "n"

\* HierarchyHelper.parseImplicitFacets
parseImplicitFacets(implicitFacetsString) ==
    IF implicitFacetsString = <<>> THEN <<>>
    ELSE SelectSeq(split(implicitFacetsString, {"$"}), LAMBDA f : f # <<>>)

\* term.name || term.extended_name || '' (the row checkBaseTerm selects has
\* no extended_name column)
termNameOf(term) == term.name

isConcentrateOrPowder(term) ==
    \E ind \in {<<"c", "o", "n", "c", "e", "n", "t", "r", "a", "t", "e">>, <<"p", "o", "w", "d", "e", "r">>, <<"d", "r", "i", "e", "d">>, <<"d", "e", "h", "y", "d", "r", "a", "t", "e", "d">>} :
        strIncludes(toLowerCase(termNameOf(term)), ind)

-----------------------------------------------------------------------------
(* BusinessRulesValidator.  A rule takes the validator v (its rule messages *)
(* v.warningMessages and its forbidden-process table v.forbiddenProcesses), *)
(* the base term, the explicit facets and st = [w |-> the warnings pushed   *)
(* so far, c |-> the ancestor cache], and returns the st it leaves.         *)

\* createWarning: the severity is the rule message's, HIGH for an id the
\* table does not hold.
createWarning(v, messageId, involvedTerms) ==
    Warning(messageId,
            IF messageId \in DOMAIN v.warningMessages
            THEN v.warningMessages[messageId].severity ELSE "HIGH",
            "BUSINESS_RULE", involvedTerms)

push(st, warning) == [st EXCEPT !.w = Append(@, warning)]

\* explicitFacets.filter(f => f.startsWith(group + '.'))
facetsOfGroup(facets, group) ==
    SelectSeq(facets, LAMBDA f : startsWith(f, group \o <<".">>))

\* .map(f => f.split('.')[1])
descriptorsOf(facets) == [i \in 1..Len(facets) |-> descriptorOf(facets[i])]

RECURSIVE loopBR01(_, _, _, _, _)
loopBR01(v, baseTerm, explicitF27, implicitF27, st) ==
    IF explicitF27 = <<>> THEN st
    ELSE With(descriptorOf(Head(explicitF27)), LAMBDA facetCode :
         With(isChildOfAny(st.c, facetCode, Append(implicitF27, baseTerm.code),
              <<"r", "a", "c", "s", "o", "u", "r", "c", "e">>), LAMBDA q :
         With([st EXCEPT !.c = q.c], LAMBDA st1 :
             loopBR01(v, baseTerm, Tail(explicitF27), implicitF27,
                      IF ~q.r THEN push(st1, createWarning(v, "BR01", facetCode)) ELSE st1))))

checkBR01(v, baseTerm, explicitFacets, st) ==
    IF ~isRawCommodity(baseTerm) THEN st
    ELSE IF facetsOfGroup(explicitFacets, <<"F", "2", "7">>) = <<>> THEN st
    ELSE loopBR01(v, baseTerm, facetsOfGroup(explicitFacets, <<"F", "2", "7">>),
                  descriptorsOf(facetsOfGroup(parseImplicitFacets(baseTerm.implicit_facets),
                                              <<"F", "2", "7">>)),
                  st)

\* BR03 given for any explicit facet of a composite, whatever its group.
checkBR03AnyGroup(v, baseTerm, explicitFacets, st) ==
    IF isComposite(baseTerm) /\ explicitFacets # <<>>
    THEN push(st, createWarning(v, "BR03", baseTerm.code)) ELSE st

checkBR03(v, baseTerm, explicitFacets, st) ==
    IF isComposite(baseTerm) /\ facetsOfGroup(explicitFacets, <<"F", "0", "1">>) # <<>>
    THEN push(st, createWarning(v, "BR03", baseTerm.code)) ELSE st

checkBR04(v, baseTerm, explicitFacets, st) ==
    IF isComposite(baseTerm) /\ facetsOfGroup(explicitFacets, <<"F", "2", "7">>) # <<>>
    THEN push(st, createWarning(v, "BR04", baseTerm.code)) ELSE st

\* The inner loop of BR05 and BR12: is `code` a child of one of the implicit
\* descriptors? It stops at the first one that is.
RECURSIVE anyMoreSpecific(_, _, _, _)
anyMoreSpecific(cache, code, implicitCodes, hierarchyCode) ==
    IF implicitCodes = <<>> THEN [r |-> FALSE, c |-> cache]
    ELSE With(isChildOf(cache, code, Head(implicitCodes), hierarchyCode), LAMBDA q :
             IF q.r THEN q
             ELSE anyMoreSpecific(q.c, code, Tail(implicitCodes), hierarchyCode))

RECURSIVE loopBR05(_, _, _, _)
loopBR05(v, explicitF27, implicitF27, st) ==
    IF explicitF27 = <<>> THEN st
    ELSE With(anyMoreSpecific(st.c, descriptorOf(Head(explicitF27)),
              descriptorsOf(implicitF27), <<"r", "a", "c", "s", "o", "u", "r", "c", "e">>), LAMBDA q :
         With([st EXCEPT !.c = q.c], LAMBDA st1 :
             loopBR05(v, Tail(explicitF27), implicitF27,
                      IF ~q.r /\ Len(implicitF27) > 0
                      THEN push(st1, createWarning(v, "BR05", Head(explicitF27)))
                      ELSE st1)))

checkBR05(v, baseTerm, explicitFacets, st) ==
    IF ~isDerivative(baseTerm) THEN st
    ELSE loopBR05(v, facetsOfGroup(explicitFacets, <<"F", "2", "7">>),
                  facetsOfGroup(parseImplicitFacets(baseTerm.implicit_facets), <<"F", "2", "7">>),
                  st)

checkBR06(v, baseTerm, explicitFacets, st) ==
    IF ~isDerivative(baseTerm) THEN st
    ELSE IF facetsOfGroup(explicitFacets, <<"F", "0", "1">>) = <<>> THEN st
    ELSE IF /\ facetsOfGroup(parseImplicitFacets(baseTerm.implicit_facets), <<"F", "2", "7">>) = <<>>
            /\ facetsOfGroup(explicitFacets, <<"F", "2", "7">>) = <<>>
    THEN push(st, createWarning(v, "BR06", baseTerm.code)) ELSE st

checkBR07(v, baseTerm, explicitFacets, st) ==
    IF ~isDerivative(baseTerm) THEN st
    ELSE IF facetsOfGroup(explicitFacets, <<"F", "0", "1">>) = <<>> THEN st
    ELSE IF Len(facetsOfGroup(parseImplicitFacets(baseTerm.implicit_facets), <<"F", "2", "7">>))
            + Len(facetsOfGroup(explicitFacets, <<"F", "2", "7">>)) > 1
    THEN push(st, createWarning(v, "BR07", baseTerm.code)) ELSE st

checkBR08(v, baseTerm, st) ==
    IF baseTerm.dismissed THEN st
    ELSE IF ~belongsToHierarchy(baseTerm.code, <<"r", "e", "p", "o", "r", "t">>)
    THEN push(st, createWarning(v, "BR08", baseTerm.code)) ELSE st

checkBR10(v, baseTerm, st) ==
    IF isNonSpecific(baseTerm) THEN push(st, createWarning(v, "BR10", baseTerm.code)) ELSE st

\* genericProcesses = ['A07XS']
RECURSIVE loopBR11(_, _, _)
loopBR11(v, explicitF28, st) ==
    IF explicitF28 = <<>> THEN st
    ELSE With(descriptorOf(Head(explicitF28)), LAMBDA processCode :
         With(IF processCode = <<"A", "0", "7", "X", "S">> THEN [r |-> TRUE, c |-> st.c]
              ELSE isChildOf(st.c, processCode, <<"A", "0", "7", "X", "S">>, <<"p", "r", "o", "c", "e", "s", "s">>), LAMBDA q :
         With([st EXCEPT !.c = q.c], LAMBDA st1 :
             loopBR11(v, Tail(explicitF28),
                      IF q.r THEN push(st1, createWarning(v, "BR11", processCode)) ELSE st1))))

checkBR11(v, baseTerm, explicitFacets, st) ==
    loopBR11(v, facetsOfGroup(explicitFacets, <<"F", "2", "8">>), st)

RECURSIVE loopBR12(_, _, _, _)
loopBR12(v, baseTerm, f04Facets, st) ==
    IF f04Facets = <<>> THEN st
    ELSE IF isComposite(baseTerm) THEN loopBR12(v, baseTerm, Tail(f04Facets), st)
    ELSE With(facetsOfGroup(parseImplicitFacets(baseTerm.implicit_facets),
              <<"F", "0", "4">>), LAMBDA implicitF04 :
         With(anyMoreSpecific(st.c, descriptorOf(Head(f04Facets)),
              descriptorsOf(implicitF04), <<"i", "n", "g", "r", "e", "d">>), LAMBDA q :
         With([st EXCEPT !.c = q.c], LAMBDA st1 :
             loopBR12(v, baseTerm, Tail(f04Facets),
                      IF ~q.r /\ Len(implicitF04) > 0
                      THEN push(st1, createWarning(v, "BR12", Head(f04Facets)))
                      ELSE st1))))

checkBR12(v, baseTerm, explicitFacets, st) ==
    loopBR12(v, baseTerm, facetsOfGroup(explicitFacets, <<"F", "0", "4">>), st)

forbiddenPhysicalStates == <<<<"A", "0", "C", "0", "D">>, <<"A", "0", "C", "0", "E">>, <<"A", "0", "C", "0", "F">>, <<"A", "0", "C", "0", "G">>, <<"A", "0", "C", "0", "H">>>>

checkBR13(v, baseTerm, explicitFacets, st) ==
    IF ~isRawCommodity(baseTerm) THEN st
    ELSE With(SelectSeq(facetsOfGroup(explicitFacets, <<"F", "0", "3">>),
              LAMBDA f : arrIncludes(forbiddenPhysicalStates, descriptorOf(f))), LAMBDA hits :
             [st EXCEPT !.w = @ \o [i \in 1..Len(hits) |->
                                       createWarning(v, "BR13", baseTerm.code)]])

\* BR14 (ICT and DCF) and BR15 (DCF): the bodies are empty.
checkBR14(v, baseTerm, explicitFacets, st) == st

checkBR15(v, baseTerm, explicitFacets, st) == st

\* The inner loop of BR16 over the implicit descriptors of the facet's group;
\* it stops at the first one that warns. The hierarchy it asks about is the
\* group id in lower case.
RECURSIVE innerBR16(_, _, _, _, _)
innerBR16(v, facetGroup, facetCode, matchingImplicit, st) ==
    IF matchingImplicit = <<>> THEN st
    ELSE With(toLowerCase(facetGroup), LAMBDA hierarchyCode :
         With(areSiblings(facetCode, Head(matchingImplicit), hierarchyCode), LAMBDA siblings :
         With(isParentOf(st.c, facetCode, Head(matchingImplicit), hierarchyCode), LAMBDA q :
             IF siblings THEN innerBR16(v, facetGroup, facetCode, Tail(matchingImplicit), st)
             ELSE IF q.r
             THEN push([st EXCEPT !.c = q.c], createWarning(v, "BR16", facetCode))
             ELSE innerBR16(v, facetGroup, facetCode, Tail(matchingImplicit),
                            [st EXCEPT !.c = q.c]))))

RECURSIVE loopBR16(_, _, _, _)
loopBR16(v, implicitFacets, explicitFacets, st) ==
    IF explicitFacets = <<>> THEN st
    ELSE With(split(Head(explicitFacets), {"."}), LAMBDA parts :
             IF Len(parts) < 2 \/ parts[1] = <<>> \/ parts[2] = <<>>
             THEN loopBR16(v, implicitFacets, Tail(explicitFacets), st)
             ELSE loopBR16(v, implicitFacets, Tail(explicitFacets),
                      innerBR16(v, parts[1], parts[2],
                                descriptorsOf(facetsOfGroup(implicitFacets, parts[1])),
                                st)))

checkBR16(v, baseTerm, explicitFacets, st) ==
    loopBR16(v, parseImplicitFacets(baseTerm.implicit_facets), explicitFacets, st)

checkBR17(v, baseTerm, st) ==
    IF isFacetTerm(baseTerm) THEN push(st, createWarning(v, "BR17", baseTerm.code)) ELSE st

\* The first lines of getForbiddenProcesses and of getProcessOrdinalCode:
\* ancestors = await getAncestors(termCode, 'report'); ancestors.push(termCode).
\* The array is the cached one, so the push writes the cache entry too.
reportAncestorsAndSelf(cache, termCode) ==
    With(getAncestors(cache, termCode, <<"r", "e", "p", "o", "r", "t">>), LAMBDA ga :
    With(Append(ga.r, termCode), LAMBDA anc :
        [r |-> anc, c |-> [ga.c EXCEPT ![cacheKey(termCode, <<"r", "e", "p", "o", "r", "t">>)] = anc]]))

\* The forbidden processes recorded for the term itself, its ancestors left
\* out.
getForbiddenProcessesOfTermOnly(v, cache, termCode) ==
    [r |-> { v.forbiddenProcesses[i].forbiddenProcessCode :
               i \in { j \in 1..Len(v.forbiddenProcesses) :
                         v.forbiddenProcesses[j].rootGroupCode = termCode } },
     c |-> cache]

\* getForbiddenProcesses: the process codes of the records whose root group
\* is one of the ancestors ([...new Set(forbidden)] only drops repetitions).
getForbiddenProcesses(v, cache, termCode) ==
    With(reportAncestorsAndSelf(cache, termCode), LAMBDA q :
        [r |-> { v.forbiddenProcesses[i].forbiddenProcessCode :
                   i \in { j \in 1..Len(v.forbiddenProcesses) :
                             arrIncludes(q.r, v.forbiddenProcesses[j].rootGroupCode) } },
         c |-> q.c])

checkBR19(v, baseTerm, explicitFacets, st) ==
    IF ~isRawCommodity(baseTerm) THEN st
    ELSE With(getForbiddenProcesses(v, st.c, baseTerm.code), LAMBDA q :
         With(SelectSeq(facetsOfGroup(explicitFacets, <<"F", "2", "8">>),
              LAMBDA f : descriptorOf(f) \in q.r), LAMBDA hits :
             [w |-> st.w \o [i \in 1..Len(hits) |->
                                createWarning(v, "BR19", descriptorOf(hits[i]))],
              c |-> q.c]))

checkBR20(v, baseTerm, st) ==
    IF baseTerm.deprecated THEN push(st, createWarning(v, "BR20", baseTerm.code)) ELSE st

checkBR21(v, baseTerm, st) ==
    IF baseTerm.dismissed THEN push(st, createWarning(v, "BR21", baseTerm.code)) ELSE st

checkBR22(v, baseTerm, st) ==
    With(\E i \in 1..Len(st.w) : st.w[i].severity \in {"HIGH", "ERROR"}, LAMBDA hasHighWarnings :
        IF ~hasHighWarnings /\ ~isHierarchyTerm(baseTerm)
        THEN push(st, createWarning(v, "BR22", baseTerm.code)) ELSE st)

checkBR23(v, baseTerm, st) ==
    IF isHierarchyTerm(baseTerm) /\ belongsToHierarchy(baseTerm.code, <<"e", "x", "p", "o">>)
    THEN push(st, createWarning(v, "BR23", baseTerm.code)) ELSE st

\* BR24 given for every hierarchy term, in the exposure hierarchy or not.
checkBR24AnyHierarchyTerm(v, baseTerm, st) ==
    IF isHierarchyTerm(baseTerm)
    THEN push(st, createWarning(v, "BR24", baseTerm.code)) ELSE st

checkBR24(v, baseTerm, st) ==
    IF isHierarchyTerm(baseTerm) /\ ~belongsToHierarchy(baseTerm.code, <<"e", "x", "p", "o">>)
    THEN push(st, createWarning(v, "BR24", baseTerm.code)) ELSE st

RECURSIVE warningsBR25(_, _, _)
warningsBR25(v, facets, groups) ==
    IF groups = <<>> THEN <<>>
    ELSE (IF arrIncludes(SINGLE_CARDINALITY_GROUPS, Head(groups))
             /\ countGroup(facets, Head(groups)) > 1
          THEN <<createWarning(v, "BR25", Head(groups))>>
          ELSE <<>>) \o warningsBR25(v, facets, Tail(groups))

checkBR25(v, explicitFacets, st) ==
    [st EXCEPT !.w = @ \o warningsBR25(v, explicitFacets, groupsInOrder(explicitFacets, <<>>))]

\* getProcessOrdinalCode: the ordinal of the first record, ancestor by
\* ancestor, whose root group is the ancestor and whose process is
\* processCode; 0 when there is none.
RECURSIVE firstOrdinal(_, _, _)
firstOrdinal(v, ancestors, processCode) ==
    IF ancestors = <<>> THEN 0
    ELSE With({ j \in 1..Len(v.forbiddenProcesses) :
              /\ v.forbiddenProcesses[j].rootGroupCode = Head(ancestors)
              /\ v.forbiddenProcesses[j].forbiddenProcessCode = processCode }, LAMBDA hits :
             IF hits # {}
             THEN v.forbiddenProcesses[CHOOSE j \in hits : \A k \in hits : j <= k].ordinalCode
             ELSE firstOrdinal(v, Tail(ancestors), processCode))

getProcessOrdinalCode(v, cache, termCode, processCode) ==
    With(reportAncestorsAndSelf(cache, termCode), LAMBDA q :
        [r |-> firstOrdinal(v, q.r, processCode), c |-> q.c])

\* One loop of getProcessesWithOrdinalCodes over the F28 facets given.
RECURSIVE processesOf(_, _, _, _, _)
processesOf(v, cache, baseTerm, f28Facets, isImplicit) ==
    IF f28Facets = <<>> THEN [r |-> <<>>, c |-> cache]
    ELSE With(descriptorOf(Head(f28Facets)), LAMBDA processCode :
         With(getProcessOrdinalCode(v, cache, baseTerm.code, processCode), LAMBDA q :
         With(processesOf(v, q.c, baseTerm, Tail(f28Facets), isImplicit), LAMBDA rest :
             [r |-> <<[code |-> processCode, ordinalCode |-> q.r,
                       isImplicit |-> isImplicit]>> \o rest.r,
              c |-> rest.c])))

\* getProcessesWithOrdinalCodes: the implicit processes, then the explicit.
getProcessesWithOrdinalCodes(v, cache, baseTerm, explicitFacets) ==
    With(processesOf(v, cache, baseTerm,
         facetsOfGroup(parseImplicitFacets(baseTerm.implicit_facets), <<"F", "2", "8">>),
         TRUE), LAMBDA imp :
    With(processesOf(v, imp.c, baseTerm, facetsOfGroup(explicitFacets, <<"F", "2", "8">>), FALSE), LAMBDA exp :
        [r |-> imp.r \o exp.r, c |-> exp.c]))

\* A set of integers as an ascending sequence.
RECURSIVE ascending(_)
ascending(S) ==
    IF S = {} THEN <<>>
    ELSE With(CHOOSE x \in S : \A y \in S : x <= y, LAMBDA m :
             <<m>> \o ascending(S \ {m}))

\* The values of a sequence at their first occurrence.
RECURSIVE firstOccurrences(_, _)
firstOccurrences(xs, seen) ==
    IF xs = <<>> THEN <<>>
    ELSE IF Head(xs) \in seen THEN firstOccurrences(Tail(xs), seen)
    ELSE <<Head(xs)>> \o firstOccurrences(Tail(xs), seen \cup {Head(xs)})

\* Object.entries order of an object keyed by numbers: the integer keys
\* ascending, then the others in insertion order (ordinals are in tenths).
entriesOrder(ordinals) ==
    ascending({ ordinals[i] : i \in { j \in 1..Len(ordinals) : ordinals[j] % 10 = 0 } })
    \o firstOccurrences(SelectSeq(ordinals, LAMBDA o : o % 10 # 0), {})

\* codes.join(' - ')
RECURSIVE joinCodes(_)
joinCodes(codes) ==
    IF codes = <<>> THEN <<>>
    ELSE IF Len(codes) = 1 THEN Head(codes)
    ELSE Head(codes) \o <<" ", "-", " ">> \o joinCodes(Tail(codes))

RECURSIVE warningsBR26(_, _, _)
warningsBR26(v, processes, keys) ==
    IF keys = <<>> THEN <<>>
    ELSE With(SelectSeq(processes, LAMBDA p : p.ordinalCode = Head(keys)), LAMBDA codes :
             (IF Len(codes) > 1
              THEN <<createWarning(v, "BR26",
                         joinCodes([i \in 1..Len(codes) |-> codes[i].code]))>>
              ELSE <<>>) \o warningsBR26(v, processes, Tail(keys)))

checkBR26(v, baseTerm, explicitFacets, st) ==
    IF ~isDerivative(baseTerm) THEN st
    ELSE With(getProcessesWithOrdinalCodes(v, st.c, baseTerm, explicitFacets), LAMBDA q :
         With(SelectSeq(q.r, LAMBDA p : p.ordinalCode # 0), LAMBDA nonZero :
         With(entriesOrder([i \in 1..Len(nonZero) |-> nonZero[i].ordinalCode]), LAMBDA keys :
             [w |-> st.w \o warningsBR26(v, nonZero, keys), c |-> q.c])))

RECURSIVE warningsBR27(_, _, _)
warningsBR27(v, decimalProcesses, intParts) ==
    IF intParts = <<>> THEN <<>>
    ELSE With(SelectSeq(decimalProcesses,
              LAMBDA p : p.ordinalCode \div 10 = Head(intParts)), LAMBDA procs :
         With(SelectSeq(procs, LAMBDA p : ~p.isImplicit), LAMBDA explicit :
         With(\E i \in 1..Len(procs) : procs[i].isImplicit, LAMBDA hasImplicit :
         With(explicit # <<>>, LAMBDA hasExplicit :
             (IF \/ (hasImplicit /\ hasExplicit /\ Len(procs) > 1)
                 \/ (~hasImplicit /\ Len(explicit) > 1)
              THEN <<createWarning(v, "BR27",
                         joinCodes([i \in 1..Len(explicit) |-> explicit[i].code]))>>
              ELSE <<>>) \o warningsBR27(v, decimalProcesses, Tail(intParts))))))

checkBR27(v, baseTerm, explicitFacets, st) ==
    IF ~isDerivative(baseTerm) THEN st
    ELSE With(getProcessesWithOrdinalCodes(v, st.c, baseTerm, explicitFacets), LAMBDA q :
         With(SelectSeq(q.r, LAMBDA p : p.ordinalCode % 10 # 0), LAMBDA decimalProcesses :
         With(ascending({ decimalProcesses[i].ordinalCode \div 10 :
              i \in 1..Len(decimalProcesses) }), LAMBDA intParts :
             [w |-> st.w \o warningsBR27(v, decimalProcesses, intParts), c |-> q.c])))

\* reconstitutionProcesses = ['A07MR', 'A07MQ']
checkBR28(v, baseTerm, explicitFacets, st) ==
    IF ~isConcentrateOrPowder(baseTerm) THEN st
    ELSE With(SelectSeq(facetsOfGroup(explicitFacets, <<"F", "2", "8">>),
              LAMBDA f : descriptorOf(f) \in {<<"A", "0", "7", "M", "R">>, <<"A", "0", "7", "M", "Q">>}), LAMBDA hits :
             [st EXCEPT !.w = @ \o [i \in 1..Len(hits) |->
                                       createWarning(v, "BR28", descriptorOf(hits[i]))]])

\* validateBusinessRules: every rule in turn on the same warnings array, each
\* awaited before the next starts.
rulesBR01toBR04(v, baseTerm, explicitFacets, st) ==
    checkBR04(v, baseTerm, explicitFacets,
    checkBR03(v, baseTerm, explicitFacets,
    checkBR01(v, baseTerm, explicitFacets, st)))

rulesBR05toBR10(v, baseTerm, explicitFacets, st) ==
    checkBR10(v, baseTerm,
    checkBR08(v, baseTerm,
    checkBR07(v, baseTerm, explicitFacets,
    checkBR06(v, baseTerm, explicitFacets,
    checkBR05(v, baseTerm, explicitFacets, st)))))

\* BR14 runs for the ICT and DCF contexts, BR15 for DCF.
rulesBR14toBR15(v, baseTerm, explicitFacets, context, st) ==
    With(IF context \in {"ICT", "DCF"}
         THEN checkBR14(v, baseTerm, explicitFacets, st) ELSE st, LAMBDA st14 :
        IF context = "DCF" THEN checkBR15(v, baseTerm, explicitFacets, st14) ELSE st14)

rulesBR12toBR15(v, baseTerm, explicitFacets, context, st) ==
    rulesBR14toBR15(v, baseTerm, explicitFacets, context,
    checkBR13(v, baseTerm, explicitFacets,
    checkBR12(v, baseTerm, explicitFacets, st)))

rulesBR01toBR15(v, baseTerm, explicitFacets, context, st) ==
    With(rulesBR01toBR04(v, baseTerm, explicitFacets, st), LAMBDA st04 :
    With(rulesBR05toBR10(v, baseTerm, explicitFacets, st04), LAMBDA st10 :
    With(checkBR11(v, baseTerm, explicitFacets, st10), LAMBDA st11 :
        rulesBR12toBR15(v, baseTerm, explicitFacets, context, st11))))

rulesBR16toBR17(v, baseTerm, explicitFacets, st) ==
    checkBR17(v, baseTerm,
    checkBR16(v, baseTerm, explicitFacets, st))

rulesBR19toBR25(v, baseTerm, explicitFacets, st) ==
    checkBR25(v, explicitFacets,
    checkBR24(v, baseTerm,
    checkBR23(v, baseTerm,
    checkBR22(v, baseTerm,
    checkBR21(v, baseTerm,
    checkBR20(v, baseTerm,
    checkBR19(v, baseTerm, explicitFacets, st)))))))

\* validateBusinessRules as it would be if it stopped at the first HIGH
\* warning: the rules from BR19 on are skipped once one is in the list.
rulesBR16toBR28UntilHigh(v, baseTerm, explicitFacets, st) ==
    With(rulesBR16toBR17(v, baseTerm, explicitFacets, st), LAMBDA st17 :
        IF \E i \in 1..Len(st17.w) : st17.w[i].severity = "HIGH"
        THEN st17
        ELSE checkBR28(v, baseTerm, explicitFacets,
             checkBR27(v, baseTerm, explicitFacets,
             checkBR26(v, baseTerm, explicitFacets,
             rulesBR19toBR25(v, baseTerm, explicitFacets, st17)))))

rulesBR16toBR28(v, baseTerm, explicitFacets, st) ==
    With(rulesBR16toBR17(v, baseTerm, explicitFacets, st), LAMBDA st17 :
    With(rulesBR19toBR25(v, baseTerm, explicitFacets, st17), LAMBDA st25 :
    With(checkBR26(v, baseTerm, explicitFacets, st25), LAMBDA st26 :
    With(checkBR27(v, baseTerm, explicitFacets, st26), LAMBDA st27 :
        checkBR28(v, baseTerm, explicitFacets, st27)))))

\* validateBusinessRules(baseTerm, explicitFacets, context): [w |-> the
\* warnings it returns, c |-> the ancestor cache it leaves]. It reads
\* baseTerm.type first, which throws a TypeError on a null base term.
validateBusinessRules(v, cache, baseTerm, explicitFacets, context) ==
    With(rulesBR01toBR15(v, baseTerm, explicitFacets, context,
                         [w |-> <<>>, c |-> cache]), LAMBDA st15 :
        rulesBR16toBR28(v, baseTerm, explicitFacets, st15))

-----------------------------------------------------------------------------
(* SoftRulesValidator *)

\* createSoftWarning: the severity is always NONE.
createSoftWarning(ruleId, involvedTerms) == Warning(ruleId, "NONE", "INFO", involvedTerms)

\* patterns.some(pattern => termName.toLowerCase().includes(pattern))
nameHasAny(term, patterns) ==
    \E p \in patterns : strIncludes(toLowerCase(termNameOf(term)), p)

isGenericTerm(baseTerm) ==
    nameHasAny(baseTerm, {<<"o", "t", "h", "e", "r">>, <<"u", "n", "s", "p", "e", "c", "i", "f", "i", "e", "d">>, <<"n", "o", "t", " ", "o", "t", "h", "e", "r", "w", "i", "s", "e">>, <<"n", ".", "o", ".", "s">>, <<"g", "e", "n", "e", "r", "i", "c">>,
                          <<"m", "i", "s", "c", "e", "l", "l", "a", "n", "e", "o", "u", "s">>, <<"v", "a", "r", "i", "o", "u", "s">>, <<"m", "i", "x", "e", "d">>, <<"a", "s", "s", "o", "r", "t", "e", "d">>})

isAdditivesMatrix(baseTerm) ==
    nameHasAny(baseTerm, {<<"b", "e", "v", "e", "r", "a", "g", "e">>, <<"s", "a", "u", "c", "e">>, <<"c", "o", "n", "f", "e", "c", "t", "i", "o", "n">>, <<"c", "a", "n", "d", "y">>, <<"s", "w", "e", "e", "t">>,
                          <<"f", "l", "a", "v", "o", "u", "r">>})

isVMPRDerivative(baseTerm) ==
    nameHasAny(baseTerm, {<<"m", "i", "l", "k", " ", "p", "o", "w", "d", "e", "r">>, <<"d", "r", "i", "e", "d", " ", "m", "i", "l", "k">>, <<"c", "h", "e", "e", "s", "e">>, <<"y", "o", "g", "u", "r", "t">>, <<"b", "u", "t", "t", "e", "r">>,
                          <<"e", "g", "g", " ", "p", "o", "w", "d", "e", "r">>, <<"d", "r", "i", "e", "d", " ", "e", "g", "g">>, <<"e", "g", "g", " ", "w", "h", "i", "t", "e">>, <<"e", "g", "g", " ", "y", "o", "l", "k">>})

isHighTempProcessedFood(baseTerm) ==
    nameHasAny(baseTerm, {<<"b", "a", "k", "e", "d">>, <<"f", "r", "i", "e", "d">>, <<"r", "o", "a", "s", "t", "e", "d">>, <<"t", "o", "a", "s", "t", "e", "d">>, <<"g", "r", "i", "l", "l", "e", "d">>, <<"b", "a", "k", "e", "r", "y">>,
                          <<"b", "r", "e", "a", "d">>, <<"b", "i", "s", "c", "u", "i", "t">>, <<"c", "o", "o", "k", "i", "e">>, <<"c", "r", "a", "c", "k", "e", "r">>, <<"p", "o", "t", "a", "t", "o", " ", "c", "h", "i", "p">>,
                          <<"f", "r", "e", "n", "c", "h", " ", "f", "r">>, <<"c", "r", "i", "s", "p">>, <<"c", "o", "f", "f", "e", "e">>})

checkSR1(baseTerm, explicitFacets) ==
    IF isGenericTerm(baseTerm) /\ ~arrIncludes(explicitFacets, <<"F", "2", "6", ".", "A", "0", "7", "X", "E">>)
    THEN <<createSoftWarning("SR1", baseTerm.code)>> ELSE <<>>

\* textInfo is '' on every call FoodEx2Validator makes.
checkSR2(baseTerm, explicitFacets, textInfo) ==
    With(SelectSeq(explicitFacets,
         LAMBDA f : startsWith(f, <<"F", "2", "7", ".">>) \/ startsWith(f, <<"F", "0", "4", ".">>)), LAMBDA refinementFacets :
    With(isGenericTerm(baseTerm) \/ Len(refinementFacets) > 1, LAMBDA needsTextInfo :
        IF needsTextInfo /\ IsBlank(textInfo)
        THEN <<createSoftWarning("SR2", baseTerm.code)>> ELSE <<>>))

checkSR3(baseTerm, explicitFacets) ==
    IF (isRawCommodity(baseTerm) \/ isDerivative(baseTerm))
       /\ facetsOfGroup(explicitFacets, <<"F", "0", "4">>) # <<>>
    THEN <<createSoftWarning("SR3", baseTerm.code)>> ELSE <<>>

checkSR4(baseTerm, explicitFacets) ==
    IF isRawCommodity(baseTerm) /\ Len(facetsOfGroup(explicitFacets, <<"F", "0", "1">>)) > 1
    THEN <<createSoftWarning("SR4", baseTerm.code)>> ELSE <<>>

mechanicalProcesses == <<<<"A", "0", "C", "R", "K">>, <<"A", "0", "7", "K", "Y">>, <<"A", "0", "B", "Y", "T">>, <<"A", "0", "C", "0", "N">>, <<"A", "0", "D", "Q", "P">>>>

\* One warning, for the first mechanical process, when no F03 is explicit.
checkSR5(baseTerm, explicitFacets) ==
    With(SelectSeq(facetsOfGroup(explicitFacets, <<"F", "2", "8">>),
         LAMBDA f : arrIncludes(mechanicalProcesses, descriptorOf(f))), LAMBDA hits :
        IF hits # <<>> /\ facetsOfGroup(explicitFacets, <<"F", "0", "3">>) = <<>>
        THEN <<createSoftWarning("SR5", descriptorOf(Head(hits)))>> ELSE <<>>)

checkSR6(baseTerm, explicitFacets) ==
    IF /\ isAdditivesMatrix(baseTerm)
       /\ facetsOfGroup(explicitFacets, <<"F", "3", "3">>) = <<>>
       /\ facetsOfGroup(explicitFacets, <<"F", "0", "3">>) = <<>>
       /\ facetsOfGroup(parseImplicitFacets(baseTerm.implicit_facets), <<"F", "0", "3">>) = <<>>
    THEN <<createSoftWarning("SR6", baseTerm.code)>> ELSE <<>>

checkSR7(baseTerm, explicitFacets) ==
    IF /\ isDerivative(baseTerm)
       /\ isVMPRDerivative(baseTerm)
       /\ facetsOfGroup(explicitFacets, <<"F", "0", "1">>) = <<>>
       /\ facetsOfGroup(parseImplicitFacets(baseTerm.implicit_facets), <<"F", "0", "1">>) = <<>>
    THEN <<createSoftWarning("SR7", baseTerm.code)>> ELSE <<>>

checkSR8(baseTerm, explicitFacets) ==
    IF isHighTempProcessedFood(baseTerm) /\ facetsOfGroup(explicitFacets, <<"F", "1", "7">>) = <<>>
    THEN <<createSoftWarning("SR8", baseTerm.code)>> ELSE <<>>

\* validateSoftRules(baseTerm, explicitFacets, context, textInfo)
validateSoftRules(baseTerm, explicitFacets, textInfo) ==
    checkSR1(baseTerm, explicitFacets) \o checkSR2(baseTerm, explicitFacets, textInfo)
    \o checkSR3(baseTerm, explicitFacets) \o checkSR4(baseTerm, explicitFacets)
    \o checkSR5(baseTerm, explicitFacets) \o checkSR6(baseTerm, explicitFacets)
    \o checkSR7(baseTerm, explicitFacets) \o checkSR8(baseTerm, explicitFacets)

-----------------------------------------------------------------------------
(* FoodEx2Validator: the aggregator *)

\* What a rejected promise (a thrown exception) is to the caller.
Threw == [threw |-> TRUE]

\* The options of `new FoodEx2Validator(db, options)`: context defaults to
\* 'ICT', the skip flags to false; an option the caller does not pass is
\* undefined, which is false where it is tested.
validatorOptions(context, stopOnStructuralError, allowHighWarnings) ==
    [context |-> context, skipBusinessRules |-> FALSE, skipVBAValidation |-> FALSE,
     skipSoftRules |-> FALSE, stopOnStructuralError |-> stopOnStructuralError,
     allowHighWarnings |-> allowHighWarnings]

\* FoodEx2Validator.create(db, options): the validator after initialize(),
\* with the data loadAllData returns.
createValidator(options) ==
    [options |-> options,
     warningMessages |-> getDefaultWarningMessages,
     forbiddenProcesses |-> ForbiddenProcessesTable,
     dataLoaded |-> TRUE]

\* parseFullCode
parseFullCode(fullCode) ==
    IF Len(fullCode) < 5
    THEN [baseTermCode |-> fullCode, facetString |-> <<>>]
    ELSE [baseTermCode |-> substring(fullCode, 0, 5),
          facetString |-> substring(fullCode, 5, Len(fullCode))]

\* runVBAValidation
runVBAValidation(v, baseTermCode, facetString) ==
    IF v.options.skipVBAValidation
    THEN [valid |-> TRUE, warnings |-> <<>>, originalCode |-> Null, cleanedCode |-> Null,
          cleanedFacets |-> parseFacetString(facetString), baseTerm |-> dbTerm(baseTermCode)]
    ELSE validateFoodEx2Code(baseTermCode, facetString)

\* businessRulesValidator.validateBusinessRules as JavaScript runs it: its
\* first statement reads baseTerm.type.
callValidateBusinessRules(v, cache, baseTerm, facets) ==
    IF baseTerm = NoRow THEN [threw |-> TRUE, w |-> <<>>, c |-> cache]
    ELSE With(validateBusinessRules(v, cache, baseTerm, facets, v.options.context), LAMBDA out :
             [threw |-> FALSE, w |-> out.w, c |-> out.c])

\* runBusinessRulesValidation as it would be without the test of baseTerm.
runBusinessRulesUnguarded(v, cache, baseTerm, facets) ==
    IF v.options.skipBusinessRules
    THEN [threw |-> FALSE, w |-> <<>>, c |-> cache]
    ELSE callValidateBusinessRules(v, cache, baseTerm, facets)

\* runBusinessRulesValidation
runBusinessRulesValidation(v, cache, baseTerm, facets) ==
    IF v.options.skipBusinessRules \/ baseTerm = NoRow
    THEN [threw |-> FALSE, w |-> <<>>, c |-> cache]
    ELSE callValidateBusinessRules(v, cache, baseTerm, facets)

\* softRulesValidator.validateSoftRules as JavaScript runs it: SR1 reads
\* baseTerm.name first.
callValidateSoftRules(baseTerm, facets) ==
    IF baseTerm = NoRow THEN [threw |-> TRUE, w |-> <<>>]
    ELSE [threw |-> FALSE, w |-> validateSoftRules(baseTerm, facets, <<>>)]

\* runSoftRulesValidation
runSoftRulesValidation(v, baseTerm, facets) ==
    IF v.options.skipSoftRules \/ baseTerm = NoRow
    THEN [threw |-> FALSE, w |-> <<>>]
    ELSE callValidateSoftRules(baseTerm, facets)

\* categorizeWarnings: the bucket of one warning.
bucketOf(warning) ==
    With(warning.severity, LAMBDA severity :
        CASE severity \in {"ERROR", "HIGH", "error", "high", "Error", "High"} -> "hard"
          [] severity \in {"LOW", "low", "Low"} -> "soft"
          [] severity \in {"NONE", "none", "None"} -> "info"
          [] OTHER -> "soft")

categorizeWarnings(warnings) ==
    [hardWarnings |-> SelectSeq(warnings, LAMBDA w : bucketOf(w) = "hard"),
     softWarnings |-> SelectSeq(warnings, LAMBDA w : bucketOf(w) = "soft"),
     infoWarnings |-> SelectSeq(warnings, LAMBDA w : bucketOf(w) = "info")]

getOverallSeverity(warnings) ==
    IF \E i \in 1..Len(warnings) : warnings[i].severity = "ERROR" THEN "ERROR"
    ELSE IF \E i \in 1..Len(warnings) : warnings[i].severity = "HIGH" THEN "HIGH"
    ELSE IF \E i \in 1..Len(warnings) : warnings[i].severity = "LOW" THEN "LOW"
    ELSE "NONE"

countSeverity(warnings, severity) ==
    Len(SelectSeq(warnings, LAMBDA w : w.severity = severity))

getWarningCounts(warnings) ==
    [error |-> countSeverity(warnings, "ERROR"), high |-> countSeverity(warnings, "HIGH"),
     low |-> countSeverity(warnings, "LOW"), info |-> countSeverity(warnings, "NONE"),
     total |-> Len(warnings)]

\* The validity test as it would be if only ERROR were blocking.
hasErrors(allWarnings) ==
    \E i \in 1..Len(allWarnings) : allWarnings[i].severity = "ERROR"

\* hasBlockingIssues of formatResult
hasBlockingIssues(allWarnings) ==
    \E i \in 1..Len(allWarnings) : allWarnings[i].severity \in {"ERROR", "HIGH"}

\* formatResult(vbaResult, brResult, srResult); brWarnings and srWarnings are
\* the empty list where the result passed is null or undefined.
formatResult(vbaResult, brWarnings, srWarnings) ==
    With(vbaResult.warnings \o brWarnings \o srWarnings, LAMBDA allWarnings :
    With(categorizeWarnings(allWarnings), LAMBDA categorizedWarnings :
        [threw |-> FALSE,
         valid |-> ~hasBlockingIssues(allWarnings),
         originalCode |-> vbaResult.originalCode,
         cleanedCode |-> vbaResult.cleanedCode,
         baseTerm |-> vbaResult.baseTerm,
         facets |-> IF vbaResult.cleanedFacets = NullList THEN <<>>
                    ELSE vbaResult.cleanedFacets,
         warnings |-> allWarnings,
         hardWarnings |-> categorizedWarnings.hardWarnings,
         softWarnings |-> categorizedWarnings.softWarnings,
         infoWarnings |-> categorizedWarnings.infoWarnings,
         severity |-> getOverallSeverity(allWarnings),
         warningCounts |-> getWarningCounts(allWarnings)]))

\* vbaResult.cleanedFacets || []
facetsOrEmpty(vbaResult) ==
    IF vbaResult.cleanedFacets = NullList THEN <<>> ELSE vbaResult.cleanedFacets

\* Whether validateCode returns right after the structural validation.
stopsOnStructuralError(v, vbaResult) == ~vbaResult.valid /\ v.options.stopOnStructuralError

\* FoodEx2Validator.validateCode(fullCode) on an initialized validator v whose
\* rule evaluator holds the ancestor cache `cache`: [res |-> the result, or
\* Threw, c |-> the cache it leaves].
validateCode(v, cache, fullCode) ==
    With(parseFullCode(fullCode), LAMBDA parsed :
    With(runVBAValidation(v, parsed.baseTermCode, parsed.facetString), LAMBDA vbaResult :
        IF stopsOnStructuralError(v, vbaResult)
        THEN [res |-> formatResult(vbaResult, <<>>, <<>>), c |-> cache]
        ELSE With(runBusinessRulesValidation(v, cache, vbaResult.baseTerm,
                  facetsOrEmpty(vbaResult)), LAMBDA brResult :
             IF brResult.threw THEN [res |-> Threw, c |-> brResult.c]
             ELSE With(runSoftRulesValidation(v, vbaResult.baseTerm,
                       facetsOrEmpty(vbaResult)), LAMBDA srResult :
                  IF srResult.threw THEN [res |-> Threw, c |-> brResult.c]
                  ELSE [res |-> formatResult(vbaResult, brResult.w, srResult.w),
                        c |-> brResult.c]))))

\* results.push(...) as it would be if the results were put in front.
unshiftResult(results, code, result) ==
    <<[code |-> code, result |-> result]>> \o results

\* results.push({ code: codes[i], ...result }) of validateBatch: the entry
\* keeps the result's fields under `result`.
pushResult(results, code, result) ==
    Append(results, [code |-> code, result |-> result])

-----------------------------------------------------------------------------
(* FoodEx2Service and its clients: the state machine *)

\* Most facets of a submitted code.
MaxFacets == 2
\* Most codes of a submitted batch.
MaxBatch == 2

\* The base parts of the codes submitted: too short, lower case, unknown,
\* and the base terms of the catalogue.
BaseCodes ==
    {<<"A", "0", "0">>, <<"a", "0", "0", "0", "l">>, <<"X", "X", "X", "X", "X">>, <<"A", "0", "0", "0", "L">>, <<"A", "0", "1", "D", "J">>, <<"A", "0", "1", "D", "K">>, <<"A", "0", "1", "D", "L">>,
     <<"A", "0", "B", "6", "L">>, <<"A", "0", "0", "0", "J">>, <<"A", "0", "7", "7", "V">>, <<"A", "0", "E", "T", "Y">>, <<"A", "0", "D", "P", "R">>, <<"A", "0", "D", "S", "M">>}

\* The facets of the codes submitted.
Fragments ==
    {<<"F", "0", "1", ".", "A", "0", "7", "7", "V">>, <<"F", "0", "1", ".", "A", "0", "7", "7", "W">>, <<"F", "2", "7", ".", "A", "0", "0", "0", "L">>, <<"F", "2", "7", ".", "A", "0", "0", "0", "M">>, <<"F", "2", "8", ".", "A", "0", "7", "K", "Q">>,
     <<"F", "2", "8", ".", "A", "0", "7", "K", "X">>, <<"F", "2", "8", ".", "A", "0", "7", "L", "G">>, <<"F", "0", "3", ".", "A", "0", "6", "J", "D">>, <<"F", "0", "3", ".", "A", "0", "C", "0", "D">>, <<"F", "0", "3", ".", "X", "X", "X", "X", "X">>,
     <<"F", "0", "4", ".", "A", "0", "F", "6", "E">>}

\* `fragments` joined the way a client writes them: '#' before the first,
\* '$' before each later one.
RECURSIVE joinTail(_)
joinTail(fragments) ==
    IF fragments = <<>> THEN <<>>
    ELSE <<"$">> \o Head(fragments) \o joinTail(Tail(fragments))

joinFacets(fragments) ==
    IF fragments = <<>> THEN <<>>
    ELSE <<"#">> \o Head(fragments) \o joinTail(Tail(fragments))

FacetLists == UNION { [1..n -> Fragments] : n \in 0..MaxFacets }

\* Codes a client writes with the separators in other places, with blank
\* fragments or with ill-formed facets.
IrregularCodes ==
    {<<>>, <<"A", "0", "0", "0", "L", "#">>, <<"A", "0", "0", "0", "L", "$", "F", "0", "1", ".", "A", "0", "7", "7", "V">>, <<"A", "0", "0", "0", "L", "#", "F", "0", "1", ".", "A", "0", "7", "7", "V", "#", "F", "0", "1", ".", "A", "0", "7", "7", "W">>,
     <<"A", "0", "0", "0", "L", "$", "F", "0", "1", ".", "A", "0", "7", "7", "V", "$", "F", "2", "8", ".", "A", "0", "7", "L", "G">>, <<"A", "0", "0", "0", "L", "#", "#", "F", "0", "1", ".", "A", "0", "7", "7", "V">>, <<"A", "0", "0", "0", "L", "#", " ", "$", "F", "0", "1", ".", "A", "0", "7", "7", "V">>,
     <<"A", "0", "0", "0", "L", "#", "F", "0", "1", ".", "A", "0", "7", "7", "V", "$">>, <<"A", "0", "0", "0", "L", "#", "F", "0", "1", "A", "0", "7", "7", "V">>, <<"A", "0", "0", "0", "L", "#", "F", "1", ".", "A", "0", "7", "7", "V">>,
     <<"A", "0", "0", "0", "L", "#", "F", "0", "1", ".", "a", "0", "7", "7", "v">>, <<"A", "0", "0", "0", "L", "#", "F", "0", "1", ".", "A", "0", "7", "7", "V", ".", "X">>, <<"A", "0", "1", "D", "J", "#", "F", "1", ".", "A", "0", "7", "7", "V", "$", "F", "2", "7", ".", "A", "0", "0", "0", "L">>,
     <<"A", "0", "B", "6", "L", "#", "F", "0", "1", "A", "0", "7", "7", "V", "$", "F", "2", "7", ".", "A", "0", "0", "0", "L">>, <<"A", "0", "1", "D", "L", "$", "F", "0", "3", ".", "A", "0", "6", "J", "D", "#", "F", "2", "7", ".", "A", "0", "0", "0", "L">>,
     <<"A", "0", "1", "D", "K", "#", "F", "2", "7", ".", "A", "0", "0", "0", "L", "#", "F", "2", "8", ".", "A", "0", "7", "K", "Q", "#", "F", "0", "3", ".", "A", "0", "6", "J", "D">>, <<"A", "0", "0", "0", "L", "F", "0", "1", ".", "A", "0", "7", "7", "V">>,
     <<"A", "0", "0", "0", "L", "#", "F", "0", "3", ".", "X", "X", "X", "X", "X", "$", "F", "0", "3", ".", "Y", "Y", "Y", "Y", "Y">>, <<"A", "0", "0", "0", "L", "#", "F", "9", "9", ".", "A", "0", "7", "7", "V">>,
     <<"A", "0", "1", "D", "J", "#", "F", "2", "8", ".", "A", "0", "7", "K", "Q", "$", "F", "0", "1", ".", "A", "0", "7", "7", "V", "$", "F", "0", "1", ".", "A", "0", "7", "7", "W">>, <<"A", "0", "0", "0", "L", "#", "F", "2", "8", ".", "A", "0", "7", "L", "N">>,
     <<"A", "0", "0", "0", "L", "#", "F", "2", "8", ".", "A", "0", "7", "L", "P">>, <<"A", "0", "B", "6", "M", "#", "F", "0", "1", ".", "A", "0", "7", "7", "V">>, <<"A", "0", "B", "6", "M", "#", "F", "2", "7", ".", "A", "0", "0", "0", "M">>,
     <<"A", "0", "B", "6", "M", "#", "F", "2", "8", ".", "A", "0", "7", "K", "Q">>, <<"A", "0", "0", "0", "M", "#", "F", "2", "8", ".", "A", "0", "7", "L", "G">>, <<"A", "0", "0", "0", "M", "#", "F", "2", "8", ".", "A", "0", "7", "K", "Q">>,
     <<"A", "0", "1", "D", "M">>, <<"A", "0", "1", "D", "M", "#", "F", "2", "8", ".", "A", "0", "7", "L", "G">>, <<"A", "0", "1", "D", "J", "#", "F", "2", "8", ".", "A", "0", "7", "X", "S">>,
     <<"A", "0", "E", "T", "Z", "#", "F", "0", "4", ".", "A", "0", "F", "6", "F">>, <<"A", "0", "B", "X", "1">>, <<"A", "0", "B", "X", "1", "#", "F", "2", "8", ".", "A", "0", "7", "K", "Q">>,
     <<"A", "0", "0", "0", "L", "#", "F", "0", "1", ".", "A", "0", "7", "K", "Q">>, <<"A", "0", "0", "0", "L", "#", "F", "0", "1", ".", "A", "0", "7", "K", "Q", "$", "F", "2", "8", ".", "A", "0", "7", "K", "Q">>, <<"A", "0", "0", "0", "L", "#", "F", "0", "5", ".", "A", "0", "7", "7", "V">>}

Codes == { b \o joinFacets(fl) : b \in BaseCodes, fl \in FacetLists } \cup IrregularCodes

\* The codes of the batches submitted.
BatchCodes == {<<"A", "0", "0">>, <<"A", "0", "0", "0", "L", "#", "F", "2", "8", ".", "A", "0", "7", "L", "G">>, <<"A", "0", "1", "D", "J", "#", "F", "2", "8", ".", "A", "0", "7", "K", "Q">>, <<"A", "0", "0", "0", "M">>, <<"A", "0", "1", "D", "J">>}

Batches == UNION { [1..n -> BatchCodes] : n \in 0..MaxBatch }

\* The contexts a client names besides the default.
OtherContexts == {"DCF", "internal", "external"}

\* The codes submitted under a named context.
ContextCodes == {<<"A", "0", "0", "0", "L", "#", "F", "0", "1", "A", "0", "7", "7", "V">>, <<"A", "0", "0", "0", "L", "#", "F", "2", "8", ".", "A", "0", "7", "L", "G">>, <<"A", "0", "0">>, <<"A", "0", "1", "D", "J", "#", "F", "2", "7", ".", "A", "0", "0", "0", "L">>}

\* The requests of POST /api/validate: the body's context defaults to 'ICT'.
Requests ==
    { [code |-> c, context |-> "ICT"] : c \in Codes }
    \cup { [code |-> c, context |-> x] : c \in ContextCodes, x \in OtherContexts }

EmptyCache == [k \in {} |-> <<>>]

VARIABLES
    phase,          \* "new", "ready", "validating", "batch", "served": where the
                    \* client session is
    validator,      \* FoodEx2Service.validator: NoRow before initialize()
    ancestorCache,  \* the ancestor cache of that validator's rule evaluator
    dataLoads,      \* how many times loadAllData has run
    req,            \* the last request of validateCode, NoRow before it
    res,            \* its result or Threw, NoRow before it
    batch,          \* the batch call: codes, next index, results, status
    walk,           \* one run of the query of getAncestors, row by row
    calls           \* the validateCode calls in flight together

vars == <<phase, validator, ancestorCache, dataLoads, req, res, batch, walk, calls>>

\* What the calls of one client session leave alone.
others == <<walk, calls>>

NoBatch == [status |-> "none", codes |-> <<>>, i |-> 0, results |-> <<>>]

NoWalk == [status |-> "none"]

NoCalls == <<>>

Init ==
    /\ phase = "new"
    /\ validator = NoRow
    /\ ancestorCache = EmptyCache
    /\ dataLoads = 0
    /\ req = NoRow
    /\ res = NoRow
    /\ batch = NoBatch
    /\ walk = NoWalk
    /\ calls = NoCalls

\* FoodEx2Service.initialize(): the validator of the service is created with
\* { context: 'ICT', dataPath } and nothing else.
Initialize ==
    /\ phase = "new"
    /\ validator' = createValidator(validatorOptions("ICT", FALSE, FALSE))
    /\ dataLoads' = dataLoads + 1
    /\ phase' = "ready"
    /\ UNCHANGED <<ancestorCache, req, res, batch, others>>

\* FoodEx2Service.validateCode(code, { context }) before initialize().
ValidateCodeNotInitialized ==
    /\ phase = "new"
    /\ \E r \in {[code |-> <<"A", "0", "0", "0", "L">>, context |-> "ICT"]} :
          /\ req' = r
          /\ res' = Threw
    /\ phase' = "served"
    /\ UNCHANGED <<validator, ancestorCache, dataLoads, batch, others>>

\* The options FoodEx2Service.validateCode builds from the caller's.
serviceValidatorOptions(context) == validatorOptions(context, TRUE, FALSE)

\* A client calls FoodEx2Service.validateCode(code, { context }).
ValidateCodeCall ==
    /\ phase = "ready"
    /\ \E r \in Requests : req' = r
    /\ phase' = "validating"
    /\ UNCHANGED <<validator, ancestorCache, dataLoads, res, batch, others>>

\* The promise of validateCode resolves or rejects with the outcome `out`
\* of the validator's validateCode; a validator of the call's own leaves the
\* service's cache alone and has loaded the data once more.
Settle(own, out) ==
    /\ res' = out.res
    /\ ancestorCache' = IF own THEN ancestorCache ELSE out.c
    /\ dataLoads' = IF own THEN dataLoads + 1 ELSE dataLoads

\* FoodEx2Service.validateCode(code, { context }) runs and its promise
\* resolves: the validator of the service, or for another context than 'ICT'
\* a validator created for the call, with its own cache and its own data,
\* loaded from the files the service's validator was loaded from.
ValidateCode ==
    /\ phase = "validating"
    /\ IF req.context # "ICT"
       THEN Settle(TRUE, validateCode(
                [createValidator(serviceValidatorOptions(req.context))
                     EXCEPT !.warningMessages = validator.warningMessages],
                EmptyCache, req.code))
       ELSE Settle(FALSE, validateCode(validator, ancestorCache, req.code))
    /\ phase' = "served"
    /\ UNCHANGED <<validator, req, batch, others>>

\* FoodEx2Service.validateBatch(codes): the call begins.
BatchStart ==
    /\ phase = "ready"
    /\ \E codes \in Batches :
          batch' = [status |-> "running", codes |-> codes, i |-> 0, results |-> <<>>]
    /\ phase' = "batch"
    /\ UNCHANGED <<validator, ancestorCache, dataLoads, req, res, others>>

\* One turn of the loop of validateBatch ends with the outcome `out` of
\* validateCode(code): a rejection rejects the batch.
Turn(code, out) ==
    /\ ancestorCache' = out.c
    /\ batch' = IF out.res = Threw
                THEN [batch EXCEPT !.status = "rejected"]
                ELSE [batch EXCEPT !.i = @ + 1,
                                   !.results = pushResult(@, code, out.res)]

\* One turn of the loop of FoodEx2Validator.validateBatch:
\* results.push({ code: codes[i], ...result }).
BatchStep ==
    /\ phase = "batch"
    /\ batch.status = "running"
    /\ batch.i < Len(batch.codes)
    /\ Turn(batch.codes[batch.i + 1],
            validateCode(validator, ancestorCache, batch.codes[batch.i + 1]))
    /\ UNCHANGED <<phase, validator, dataLoads, req, res, others>>

\* The loop of validateBatch is over: the results are returned.
BatchReturn ==
    /\ phase = "batch"
    /\ batch.status = "running"
    /\ batch.i = Len(batch.codes)
    /\ batch' = [batch EXCEPT !.status = "returned"]
    /\ phase' = "served"
    /\ UNCHANGED <<validator, ancestorCache, dataLoads, req, res, others>>

Next ==
    \/ Initialize
    \/ ValidateCodeNotInitialized
    \/ ValidateCodeCall
    \/ ValidateCode
    \/ BatchStart
    \/ BatchStep
    \/ BatchReturn

Spec == Init /\ [][Next]_vars


\* ---------------------------------------------------------------------------
\* The query of HierarchyHelper.getAncestors, row by row, as the database
\* evaluates a recursive common table expression: the rows of the initial
\* select are queued; one queued row at a time is taken out and joined with
\* term_hierarchies, and the rows it gives that the table of results does
\* not hold yet (UNION) are added to the results and to the queue; the query
\* is over when the queue is empty.
\* ---------------------------------------------------------------------------

\* How many levels of rows a run is followed for.
MaxLevel == 8

\* The catalogue with the parent link of (code, hierarchy) set to `parent`.
relinked(code, hierarchy, parent) ==
    { h \in TermHierarchiesTable : ~(h.term_code = code /\ h.hierarchy_code = hierarchy) }
    \cup { HierRow(code, hierarchy, parent) }

\* The catalogues the database file may hold: the one of the validator, one
\* whose 'process' hierarchy has the cycle A07KQ -> A07XS -> A07KQ, and one
\* where A000J is its own parent in 'report'.
Catalogues ==
    { TermHierarchiesTable,
      relinked(<<"A", "0", "7", "X", "S">>, <<"p", "r", "o", "c", "e", "s", "s">>, <<"A", "0", "7", "K", "Q">>),
      relinked(<<"A", "0", "0", "0", "J">>, <<"r", "e", "p", "o", "r", "t">>, <<"A", "0", "0", "0", "J">>) }

WalkTerms == { h.term_code : h \in TermHierarchiesTable }

WalkHierarchies == { h.hierarchy_code : h \in TermHierarchiesTable }

\* SELECT parent_code, <level> FROM term_hierarchies
\* WHERE term_code = code AND hierarchy_code = hierarchyCode
parentRows(table, code, hierarchyCode, level) ==
    { [ancestor_code |-> h.parent_code, level |-> level] :
        h \in { x \in table : x.term_code = code /\ x.hierarchy_code = hierarchyCode } }

\* SELECT DISTINCT ancestor_code FROM ancestors ORDER BY level: the codes of
\* the rows from `level` on, each code at its first level only.
RECURSIVE distinctByLevel(_, _, _, _)
distinctByLevel(rows, level, last, seen) ==
    IF level > last THEN <<>>
    ELSE With({ r.ancestor_code : r \in { x \in rows : x.level = level } } \ seen,
              LAMBDA codes :
                  (IF codes = {} THEN <<>> ELSE <<CHOOSE c \in codes : TRUE>>)
                  \o distinctByLevel(rows, level + 1, last, seen \cup codes))

\* getAncestors(termCode, hierarchyCode) is called with a key the cache does
\* not hold, on a database holding `table`.
GetAncestorsCall ==
    /\ walk = NoWalk
    /\ \E table \in Catalogues, termCode \in WalkTerms, hierarchyCode \in WalkHierarchies :
          walk' = [status |-> "called", table |-> table, termCode |-> termCode,
                   hierarchyCode |-> hierarchyCode, queue |-> {}, rows |-> {},
                   result |-> <<>>]
    /\ UNCHANGED <<phase, validator, ancestorCache, dataLoads, req, res, batch, calls>>

\* The initial select of the query: the direct parent, at level 1.
QueryInitialSelect ==
    /\ walk.status = "called"
    /\ With(parentRows(walk.table, walk.termCode, walk.hierarchyCode, 1), LAMBDA found :
          walk' = [walk EXCEPT !.status = "querying", !.queue = found, !.rows = found])
    /\ UNCHANGED <<phase, validator, ancestorCache, dataLoads, req, res, batch, calls>>

\* One step of the recursive select: a queued row is joined with
\* term_hierarchies on thr.term_code = a.ancestor_code.
QueryRecursiveStep ==
    /\ walk.status = "querying"
    /\ \E a \in walk.queue :
          /\ a.level < MaxLevel
          /\ With(parentRows(walk.table, a.ancestor_code, walk.hierarchyCode, a.level + 1)
                      \ walk.rows,
                  LAMBDA found :
                      walk' = [walk EXCEPT !.queue = (@ \ {a}) \cup found,
                                           !.rows = @ \cup found])
    /\ UNCHANGED <<phase, validator, ancestorCache, dataLoads, req, res, batch, calls>>

\* The queue is empty: the query returns and getAncestors maps the rows to
\* their codes.
QueryReturn ==
    /\ walk.status = "querying"
    /\ walk.queue = {}
    /\ walk' = [walk EXCEPT !.status = "returned",
                            !.result = distinctByLevel(walk.rows, 1, MaxLevel, {})]
    /\ UNCHANGED <<phase, validator, ancestorCache, dataLoads, req, res, batch, calls>>

NextAncestors ==
    \/ GetAncestorsCall
    \/ QueryInitialSelect
    \/ QueryRecursiveStep
    \/ QueryReturn

SpecAncestors == Init /\ [][NextAncestors]_vars

\* ---------------------------------------------------------------------------
\* Two validateCode calls on the validator of the service, in flight
\* together. A call gives way to the other at its awaits: after the
\* structural validation, after each rule of validateBusinessRules, and
\* after the soft rules. What the calls share is the validator and the
\* ancestor cache of its rule evaluator; the warnings list of a call is a
\* local of that call.
\* ---------------------------------------------------------------------------

\* The rules validateBusinessRules awaits, in its order.
BusinessRuleIds ==
    <<"BR01", "BR03", "BR04", "BR05", "BR06", "BR07", "BR08", "BR10", "BR11", "BR12",
      "BR13", "BR14", "BR15", "BR16", "BR17", "BR19", "BR20", "BR21", "BR22", "BR23",
      "BR24", "BR25", "BR26", "BR27", "BR28">>

\* The k-th await of validateBusinessRules.
ruleStep(k, v, baseTerm, explicitFacets, context, st) ==
    CASE BusinessRuleIds[k] = "BR01" -> checkBR01(v, baseTerm, explicitFacets, st)
      [] BusinessRuleIds[k] = "BR03" -> checkBR03(v, baseTerm, explicitFacets, st)
      [] BusinessRuleIds[k] = "BR04" -> checkBR04(v, baseTerm, explicitFacets, st)
      [] BusinessRuleIds[k] = "BR05" -> checkBR05(v, baseTerm, explicitFacets, st)
      [] BusinessRuleIds[k] = "BR06" -> checkBR06(v, baseTerm, explicitFacets, st)
      [] BusinessRuleIds[k] = "BR07" -> checkBR07(v, baseTerm, explicitFacets, st)
      [] BusinessRuleIds[k] = "BR08" -> checkBR08(v, baseTerm, st)
      [] BusinessRuleIds[k] = "BR10" -> checkBR10(v, baseTerm, st)
      [] BusinessRuleIds[k] = "BR11" -> checkBR11(v, baseTerm, explicitFacets, st)
      [] BusinessRuleIds[k] = "BR12" -> checkBR12(v, baseTerm, explicitFacets, st)
      [] BusinessRuleIds[k] = "BR13" -> checkBR13(v, baseTerm, explicitFacets, st)
      [] BusinessRuleIds[k] = "BR14" ->
            IF context \in {"ICT", "DCF"}
            THEN checkBR14(v, baseTerm, explicitFacets, st) ELSE st
      [] BusinessRuleIds[k] = "BR15" ->
            IF context = "DCF" THEN checkBR15(v, baseTerm, explicitFacets, st) ELSE st
      [] BusinessRuleIds[k] = "BR16" -> checkBR16(v, baseTerm, explicitFacets, st)
      [] BusinessRuleIds[k] = "BR17" -> checkBR17(v, baseTerm, st)
      [] BusinessRuleIds[k] = "BR19" -> checkBR19(v, baseTerm, explicitFacets, st)
      [] BusinessRuleIds[k] = "BR20" -> checkBR20(v, baseTerm, st)
      [] BusinessRuleIds[k] = "BR21" -> checkBR21(v, baseTerm, st)
      [] BusinessRuleIds[k] = "BR22" -> checkBR22(v, baseTerm, st)
      [] BusinessRuleIds[k] = "BR23" -> checkBR23(v, baseTerm, st)
      [] BusinessRuleIds[k] = "BR24" -> checkBR24(v, baseTerm, st)
      [] BusinessRuleIds[k] = "BR25" -> checkBR25(v, explicitFacets, st)
      [] BusinessRuleIds[k] = "BR26" -> checkBR26(v, baseTerm, explicitFacets, st)
      [] BusinessRuleIds[k] = "BR27" -> checkBR27(v, baseTerm, explicitFacets, st)
      [] BusinessRuleIds[k] = "BR28" -> checkBR28(v, baseTerm, explicitFacets, st)

\* The pairs of codes submitted together.
ConcurrentPairs ==
    { <<<<"A", "0", "0", "0", "L", "#", "F", "2", "8", ".", "A", "0", "7", "L", "G">>, <<"A", "0", "0", "0", "L", "#", "F", "2", "8", ".", "A", "0", "7", "L", "G">>>>,
      <<<<"A", "0", "0", "0", "L", "#", "F", "2", "8", ".", "A", "0", "7", "L", "G">>, <<"A", "0", "0", "0", "L", "#", "F", "2", "7", ".", "A", "0", "0", "0", "L">>>>,
      <<<<"A", "0", "1", "D", "J", "#", "F", "2", "8", ".", "A", "0", "7", "K", "Q">>, <<"A", "0", "1", "D", "J", "#", "F", "2", "8", ".", "A", "0", "7", "K", "X">>>>,
      <<<<"A", "0", "1", "D", "J", "#", "F", "2", "8", ".", "A", "0", "7", "K", "Q">>, <<"A", "0", "0", "0", "L", "#", "F", "2", "8", ".", "A", "0", "7", "L", "G">>>>,
      <<<<"A", "0", "B", "X", "1">>, <<"A", "0", "0", "0", "L", "#", "F", "0", "1", "A", "0", "7", "7", "V">>>>,
      <<<<"A", "0", "0">>, <<"A", "0", "1", "D", "M", "#", "F", "2", "8", ".", "A", "0", "7", "L", "G">>>> }

inRules(call) == call.at = "rules"

\* Two clients call validateCode on the service at the same time. A call is
\* at "structural", then "rules" (k is its next rule), then "soft", then
\* "done".
ConcurrentCalls ==
    /\ phase = "ready"
    /\ calls = NoCalls
    /\ \E pair \in ConcurrentPairs :
          calls' = [i \in {1, 2} |->
                       [code |-> pair[i], at |-> "structural", k |-> 0, vba |-> NoRow,
                        w |-> <<>>, mixed |-> FALSE, result |-> NoRow]]
    /\ phase' = "concurrent"
    /\ UNCHANGED <<validator, ancestorCache, dataLoads, req, res, batch, walk>>

\* Call i up to the end of `await this.runVBAValidation(...)`: it returns the
\* structural result at once, or goes on to the business rules, or to the
\* soft rules when there is no base term.
CallStructural(i) ==
    /\ phase = "concurrent"
    /\ calls[i].at = "structural"
    /\ With(parseFullCode(calls[i].code), LAMBDA parsed :
       With(runVBAValidation(validator, parsed.baseTermCode, parsed.facetString),
            LAMBDA vbaResult :
               calls' = [calls EXCEPT ![i] =
                   IF stopsOnStructuralError(validator, vbaResult)
                   THEN [@ EXCEPT !.at = "done", !.vba = vbaResult,
                                  !.result = formatResult(vbaResult, <<>>, <<>>)]
                   ELSE IF validator.options.skipBusinessRules \/ vbaResult.baseTerm = NoRow
                        THEN [@ EXCEPT !.at = "soft", !.vba = vbaResult]
                        ELSE [@ EXCEPT !.at = "rules", !.k = 1, !.vba = vbaResult]]))
    /\ UNCHANGED <<phase, validator, ancestorCache, dataLoads, req, res, batch, walk>>

\* CallRule as it would be if the warnings list were a field of the validator:
\* every call pushes to the one list and reads it.
CallRuleOnSharedWarnings(i) ==
    /\ phase = "concurrent"
    /\ inRules(calls[i])
    /\ With(ruleStep(calls[i].k, validator, calls[i].vba.baseTerm,
                     facetsOrEmpty(calls[i].vba), validator.options.context,
                     [w |-> calls[1].w, c |-> ancestorCache]), LAMBDA st :
          /\ ancestorCache' = st.c
          /\ calls' = [j \in DOMAIN calls |->
                 IF j # i THEN [calls[j] EXCEPT !.w = st.w]
                 ELSE [calls[j] EXCEPT
                           !.w = st.w,
                           !.k = @ + 1,
                           !.at = IF calls[i].k = Len(BusinessRuleIds) THEN "soft" ELSE "rules"]])
    /\ UNCHANGED <<phase, validator, dataLoads, req, res, batch, walk>>

\* Call i runs its next rule to the end, on its own warnings and on the
\* cache as it is now.
CallRule(i) ==
    /\ phase = "concurrent"
    /\ inRules(calls[i])
    /\ With(ruleStep(calls[i].k, validator, calls[i].vba.baseTerm,
                     facetsOrEmpty(calls[i].vba), validator.options.context,
                     [w |-> calls[i].w, c |-> ancestorCache]), LAMBDA st :
          /\ ancestorCache' = st.c
          /\ calls' = [calls EXCEPT ![i] =
                 [@ EXCEPT !.w = st.w,
                           !.k = @ + 1,
                           !.at = IF calls[i].k = Len(BusinessRuleIds) THEN "soft" ELSE "rules",
                           !.mixed = @ \/ \E j \in DOMAIN calls :
                                              j # i /\ inRules(calls[j]) /\ calls[j].k > 1]])
    /\ UNCHANGED <<phase, validator, dataLoads, req, res, batch, walk>>

\* Call i runs the soft rules and returns formatResult(...).
CallReturn(i) ==
    /\ phase = "concurrent"
    /\ calls[i].at = "soft"
    /\ With(runSoftRulesValidation(validator, calls[i].vba.baseTerm,
                                   facetsOrEmpty(calls[i].vba)), LAMBDA srResult :
          calls' = [calls EXCEPT ![i] =
              [@ EXCEPT !.at = "done",
                        !.result = IF srResult.threw THEN Threw
                                   ELSE formatResult(calls[i].vba, calls[i].w, srResult.w)]])
    /\ UNCHANGED <<phase, validator, ancestorCache, dataLoads, req, res, batch, walk>>

\* Two calls were inside getAncestors for the same key, both past the test
\* of the cache: the one whose query ends last stores its own array over the
\* one the cache holds, pushes of the other call included.
CacheSetLate ==
    /\ phase = "concurrent"
    /\ \A i \in DOMAIN calls : inRules(calls[i])
    /\ \E key \in DOMAIN ancestorCache :
          /\ ancestorCache[key] # queryAncestors(split(key, {":"})[1], split(key, {":"})[2])
          /\ ancestorCache' = [ancestorCache EXCEPT
                 ![key] = queryAncestors(split(key, {":"})[1], split(key, {":"})[2])]
    /\ UNCHANGED <<phase, validator, dataLoads, req, res, batch, walk, calls>>

NextConcurrent ==
    \/ Initialize
    \/ ConcurrentCalls
    \/ \E i \in {1, 2} : CallStructural(i)
    \/ \E i \in {1, 2} : CallRule(i)
    \/ \E i \in {1, 2} : CallReturn(i)
    \/ CacheSetLate

SpecConcurrent == Init /\ [][NextConcurrent]_vars

\* ---------------------------------------------------------------------------
\* The service started on a warningMessages.txt of its data directory: the
\* severity of a rule's warnings is the SemaphoreWarningLevel of the rule's
\* record, as the file spells it.
\* ---------------------------------------------------------------------------

\* `BR${String(record['Message ID']).padStart(2, '0')}`
messageIdOf(id) == "BR" \o (IF id < 10 THEN "0" ELSE "") \o ToString(id)

\* loadWarningMessages on the records of the file.
loadWarningMessages(records) ==
    [r \in { messageIdOf(rec.id) : rec \in records } |->
        [severity |-> (CHOOSE rec \in records : messageIdOf(rec.id) = r).level]]

\* The records that give getDefaultWarningMessages.
StandardRecords ==
    { [id |-> id, level |-> getDefaultWarningMessages[messageIdOf(id)].severity] :
        id \in {1, 3, 4, 5, 6, 7, 8} \cup (10..17) \cup (19..31) }

\* The levels a file spells for a rule: those of the standard file, the same
\* in other letter case, and a word that is none of them.
SeverityStrings == {"HIGH", "LOW", "high", "High", "none", "SEVERE"}

\* The files: the standard one, and those where BR13 or BR22 has another
\* level.
MessageFiles ==
    { StandardRecords }
    \cup { { rec \in StandardRecords : rec.id # id } \cup { [id |-> id, level |-> level] } :
             id \in {13, 22}, level \in SeverityStrings }

\* FoodEx2Service.initialize() where loadAllData reads the file.
InitializeFromFile ==
    /\ phase = "new"
    /\ \E records \in MessageFiles :
          validator' = [createValidator(validatorOptions("ICT", FALSE, FALSE))
                            EXCEPT !.warningMessages = loadWarningMessages(records)]
    /\ dataLoads' = dataLoads + 1
    /\ phase' = "ready"
    /\ UNCHANGED <<ancestorCache, req, res, batch, others>>

NextMessages ==
    \/ InitializeFromFile
    \/ ValidateCodeCall
    \/ ValidateCode

SpecMessages == Init /\ [][NextMessages]_vars
-----------------------------------------------------------------------------
(* The properties of the specification, stated over the calls the service  *)
(* has answered.                                                           *)

\* The calls answered by the validator that FoodEx2Service.initialize builds:
\* the validateCode call under context 'ICT' and the entries of the batch.
Outcomes ==
    (IF phase = "served" /\ validator # NoRow /\ req # NoRow /\ req.context = "ICT"
     THEN {[code |-> req.code, result |-> res]} ELSE {})
    \cup { batch.results[i] : i \in 1..Len(batch.results) }

\* Those that returned a result.
Returned == { o \in Outcomes : ~o.result.threw }

hasWarning(result, rules, severity) ==
    \E i \in 1..Len(result.warnings) :
        result.warnings[i].rule \in rules /\ result.warnings[i].severity = severity

hasSeverity(result, severities) ==
    \E i \in 1..Len(result.warnings) : result.warnings[i].severity \in severities

StructuralRuleIds ==
    {"VBA-STRUCT", "VBA-NOTFOUND", "VBA-FORMAT", "VBA-GROUP", "VBA-DESCRIPTOR",
     "VBA-FACET404", "VBA-CATEGORY", "VBA-IMPLICIT", "VBA-CARDINALITY", "VBA-DUPLICATE"}

\* The base part and the facets a code is read as.
baseOf(code) == parseFullCode(code).baseTermCode
facetsOf(code) == parseFacetString(parseFullCode(code).facetString)

\* The code has a valid base term and well-formed facets: it passes the shape
\* checks.
passesShape(code) == checkBaseTerm(baseOf(code)).valid /\ checkCorrectFacet(facetsOf(code))

C2_StopsOnStructuralError ==
    \A o \in Returned :
        hasWarning(o.result, StructuralRuleIds, "ERROR")
            => \A i \in 1..Len(o.result.warnings) :
                   o.result.warnings[i].rule \in StructuralRuleIds

\* A result with a structural ERROR and a business-rule warning after it.
C2_Witness ==
    \E o \in Returned :
        /\ hasWarning(o.result, {"VBA-FORMAT"}, "ERROR")
        /\ \E i \in 1..Len(o.result.warnings) :
               o.result.warnings[i].type = "BUSINESS_RULE"

\* The faults of a code, each with what reports it.
baseFault(code) == ~IsCode5(baseOf(code)) \/ dbTerm(baseOf(code)) = NoRow

illFormed(facet) ==
    LET parts == split(facet, {"."})
    IN  Len(parts) # 2 \/ ~IsGroupId(parts[1]) \/ ~IsCode5(parts[2])

reportedAbout(result, facet) ==
    \E i \in 1..Len(result.warnings) :
        /\ result.warnings[i].severity = "ERROR"
        /\ result.warnings[i].about = facet

\* C3: validateCode on an initialized validator never throws, whatever the
\* string, and reports the fault of the string as a warning: a bad or unknown
\* base term, else every ill-formed facet, else every facet whose descriptor
\* is not in the catalogue.
C3_FaultsBecomeWarnings ==
    /\ batch.status # "rejected"
    /\ \A o \in Outcomes :
        /\ ~o.result.threw
        /\ baseFault(o.code)
             => hasWarning(o.result, {"VBA-STRUCT", "VBA-NOTFOUND"}, "ERROR")
        /\ ~baseFault(o.code)
             => \A k \in 1..Len(facetsOf(o.code)) :
                    illFormed(facetsOf(o.code)[k])
                        => reportedAbout(o.result, facetsOf(o.code)[k])
        /\ passesShape(o.code)
             => \A k \in 1..Len(facetsOf(o.code)) :
                    dbTerm(descriptorOf(facetsOf(o.code)[k])) = NoRow
                        => reportedAbout(o.result, facetsOf(o.code)[k])

\* A code with a known base term and an ill-formed facet was answered with a
\* result that reports the facet.
C3_Witness ==
    \E o \in Returned :
        /\ ~baseFault(o.code)
        /\ \E k \in 1..Len(facetsOf(o.code)) : illFormed(facetsOf(o.code)[k])
        /\ hasWarning(o.result, {"VBA-FORMAT", "VBA-GROUP", "VBA-DESCRIPTOR"}, "ERROR")

\* C4: validateBatch returns one entry per code, in the order of the codes:
\* entry i carries codes[i] and the validation result of codes[i].
C4_BatchMirrorsInput ==
    /\ Len(batch.results) = batch.i
    /\ batch.status = "returned" => Len(batch.results) = Len(batch.codes)
    /\ \A k \in 1..Len(batch.results) :
        /\ batch.results[k].code = batch.codes[k]
        /\ batch.results[k].result = validateCode(validator, EmptyCache, batch.codes[k]).res

\* A batch of two different codes was returned.
C4_Witness ==
    /\ batch.status = "returned"
    /\ Len(batch.codes) = 2
    /\ batch.codes[1] # batch.codes[2]
    /\ Len(batch.results) = 2

\* The code is shorter than five characters or one of its first five is no
\* capital letter or digit.
badBasePrefix(code) ==
    Len(code) < 5 \/ \E i \in 1..5 : code[i] \notin (UpperChars \cup DigitChars)

\* C5: a code that is too short or whose first five characters are not
\* capitals and digits is rejected with the structural ERROR of the base term
\* and nothing else: valid is false, baseTerm and cleanedCode are null, no
\* facet survives, and no rule was evaluated (no other warning, nothing read
\* through the ancestor cache).
C5_BadBaseRejected ==
    /\ \A o \in Outcomes :
        badBasePrefix(o.code) =>
            /\ ~o.result.threw
            /\ o.result.warnings = <<Warning("VBA-STRUCT", "ERROR", "STRUCTURE", <<>>)>>
            /\ o.result.valid = FALSE
            /\ o.result.baseTerm = NoRow
            /\ o.result.cleanedCode = Null
            /\ o.result.facets = <<>>
    /\ (phase = "served" /\ batch.status = "none" /\ req # NoRow /\ badBasePrefix(req.code))
           => ancestorCache = EmptyCache

\* A code of five characters or more whose base part is in lower case, with
\* facets after it, was rejected.
C5_Witness ==
    \E o \in Returned :
        /\ Len(o.code) > 5
        /\ badBasePrefix(o.code)
        /\ hasWarning(o.result, {"VBA-STRUCT"}, "ERROR")
        /\ o.result.baseTerm = NoRow

\* An implicit_facets string with every separator written as `sep`.
withSeparator(implicitFacetsString, sep) ==
    [i \in 1..Len(implicitFacetsString) |->
        IF implicitFacetsString[i] \in {"#", "$"} THEN sep ELSE implicitFacetsString[i]]

\* C6: the implicit facets of the base term are parsed to the same list
\* whether the catalogue separates them by '$', by '#' or by both, by
\* getImplicitFacets and by parseImplicitFacets.
C6_SeparatorsInterchangeable ==
    \A o \in Returned :
        o.result.baseTerm # NoRow =>
            LET term == o.result.baseTerm
                s == term.implicit_facets
                dollars == withSeparator(s, "$")
                hashes == withSeparator(s, "#")
            IN  /\ getImplicitFacets([term EXCEPT !.implicit_facets = hashes])
                     = getImplicitFacets([term EXCEPT !.implicit_facets = dollars])
                /\ getImplicitFacets(term)
                     = getImplicitFacets([term EXCEPT !.implicit_facets = dollars])
                /\ parseImplicitFacets(hashes) = parseImplicitFacets(dollars)
                /\ parseImplicitFacets(s) = parseImplicitFacets(dollars)

\* A base term whose implicit facets the catalogue separates by '#' was
\* validated, and they were read as one facet.
C6_Witness ==
    \E o \in Returned :
        /\ o.result.baseTerm # NoRow
        /\ arrIncludes(o.result.baseTerm.implicit_facets, "#")
        /\ ~arrIncludes(o.result.baseTerm.implicit_facets, "$")
        /\ Len(getImplicitFacets(o.result.baseTerm)) = 1

\* The implicit facets of a term, whichever separators its string uses.
implicitFacetsOf(term) ==
    SelectSeq(split(term.implicit_facets, {"#", "$"}), LAMBDA f : f # <<>>)

\* C7: after a validation that passes the shape checks, no facet of the
\* result is an implicit facet of the base term.
C7_NoImplicitFacetSurvives ==
    \A o \in Returned :
        passesShape(o.code) =>
            \A k \in 1..Len(o.result.facets) :
                ~arrIncludes(implicitFacetsOf(o.result.baseTerm), o.result.facets[k])

\* An implicit facet of the base term is among the facets of a result.
C7_Witness ==
    \E o \in Returned :
        /\ passesShape(o.code)
        /\ \E k \in 1..Len(o.result.facets) :
               arrIncludes(implicitFacetsOf(o.result.baseTerm), o.result.facets[k])

\* C8: validating the cleaned code of a result again removes nothing: no
\* VBA-IMPLICIT warning, and no cleaned code.
C8_RemovalIdempotent ==
    \A o \in Returned :
        o.result.cleanedCode # Null =>
            LET again == validateCode(validator, ancestorCache, o.result.cleanedCode).res
            IN  /\ ~again.threw
                /\ ~hasWarning(again, {"VBA-IMPLICIT"}, "HIGH")
                /\ again.cleanedCode = Null

\* A result came with a cleaned code that still has a facet.
C8_Witness ==
    \E o \in Returned :
        /\ o.result.cleanedCode # Null
        /\ hasWarning(o.result, {"VBA-IMPLICIT"}, "HIGH")
        /\ o.result.facets # <<>>

\* C9: for the base and the well-formed facets of a code, buildFacetString
\* writes '#' before the first facet and '$' before each later one, and the
\* base with that string is read back as the same base and the same facets.
C9_SerializeParseRoundTrip ==
    \A o \in Outcomes :
        LET base == baseOf(o.code)
            fs == facetsOf(o.code)
            s == buildFacetString(fs)
        IN  (Len(base) = 5 /\ \A k \in 1..Len(fs) : ~illFormed(fs[k])) =>
                /\ s = joinFacets(fs)
                /\ parseFullCode(base \o s) = [baseTermCode |-> base, facetString |-> s]
                /\ parseFacetString(s) = fs

\* A code with two well-formed facets was validated and its surviving facets
\* were serialized into a cleaned code.
C9_Witness ==
    \E o \in Returned :
        /\ Len(facetsOf(o.code)) >= 2
        /\ \A k \in 1..Len(facetsOf(o.code)) : ~illFormed(facetsOf(o.code)[k])
        /\ o.result.cleanedCode = baseOf(o.code) \o buildFacetString(o.result.facets)
        /\ o.result.facets # <<>>

\* The code has two or more facets of one single-cardinality group.
repeatsSingleGroup(code) ==
    \E i \in 1..Len(SINGLE_CARDINALITY_GROUPS) :
        countGroup(facetsOf(code), SINGLE_CARDINALITY_GROUPS[i]) >= 2

\* C10: a code with two or more facets of one single-cardinality group gets
\* a VBA-CARDINALITY or BR25 warning of severity HIGH, whether or not the
\* descriptors of the facets are in the catalogue.
C10_CardinalityAlwaysReported ==
    \A o \in Returned :
        (passesShape(o.code) /\ repeatsSingleGroup(o.code))
            => hasWarning(o.result, {"VBA-CARDINALITY", "BR25"}, "HIGH")

\* Two facets of one single-cardinality group, one of them with a descriptor
\* the catalogue does not have, and no cardinality warning in the result.
C10_Witness ==
    \E o \in Returned :
        /\ passesShape(o.code)
        /\ repeatsSingleGroup(o.code)
        /\ hasWarning(o.result, {"VBA-FACET404"}, "ERROR")
        /\ ~hasWarning(o.result, {"VBA-CARDINALITY", "BR25"}, "HIGH")


\* The facets of a cleaned code that belong to group g.
cleanedGroupCount(result, g) == countGroup(facetsOf(result.cleanedCode), g)

\* C11: whenever the cleaned code of a result is not null, it holds at most
\* one explicit facet of each single-cardinality group.
C11_CleanedCodeSingleCardinality ==
    \A o \in Returned :
        o.result.cleanedCode # Null
            => \A i \in 1..Len(SINGLE_CARDINALITY_GROUPS) :
                   cleanedGroupCount(o.result, SINGLE_CARDINALITY_GROUPS[i]) <= 1

\* An implicit facet was removed and the cleaned code keeps two facets of
\* group F01, next to the VBA-CARDINALITY warning.
C11_Witness ==
    \E o \in Returned :
        /\ o.result.cleanedCode # Null
        /\ cleanedGroupCount(o.result, <<"F", "0", "1">>) = 2
        /\ hasWarning(o.result, {"VBA-CARDINALITY"}, "HIGH")

\* The facets a result has a VBA-DUPLICATE warning of severity HIGH about,
\* and how many such warnings it has.
duplicateWarned(warnings) ==
    { warnings[i].about : i \in { j \in 1..Len(warnings) :
          warnings[j].rule = "VBA-DUPLICATE" /\ warnings[j].severity = "HIGH" } }

duplicateWarningCount(warnings) ==
    Cardinality({ j \in 1..Len(warnings) : warnings[j].rule = "VBA-DUPLICATE" })

\* The facets that occur more than once in a list.
repeatedFacets(facets) ==
    { facets[i] : i \in { j \in 1..Len(facets) :
          \E k \in 1..Len(facets) : k # j /\ facets[k] = facets[j] } }

\* The lists that are permutations of a list.
permutationsOf(facets) ==
    { [i \in 1..Len(facets) |-> facets[p[i]]] :
        p \in { q \in [1..Len(facets) -> 1..Len(facets)] :
                   \A i, j \in 1..Len(facets) : q[i] = q[j] => i = j } }

\* C12: duplicate-facet detection is symmetric under permutation of the
\* explicit facets of a code, and gives one VBA-DUPLICATE warning of severity
\* HIGH per distinct facet that occurs more than once in the code.
C12_DuplicatesSymmetric ==
    \A o \in Returned :
        passesShape(o.code)
            => /\ duplicateWarned(o.result.warnings) = repeatedFacets(facetsOf(o.code))
               /\ duplicateWarningCount(o.result.warnings)
                      = Cardinality(repeatedFacets(facetsOf(o.code)))
               /\ \A fl \in permutationsOf(facetsOf(o.code)) :
                      duplicateWarned(validateFoodEx2Code(baseOf(o.code), joinFacets(fl)).warnings)
                          = duplicateWarned(o.result.warnings)

\* The part of C12 about permutations alone: the facets warned about do not
\* depend on the order of the explicit facets.
C12_PermutationPart ==
    \A o \in Returned :
        passesShape(o.code)
            => \A fl \in permutationsOf(facetsOf(o.code)) :
                   duplicateWarned(validateFoodEx2Code(baseOf(o.code), joinFacets(fl)).warnings)
                       = duplicateWarned(o.result.warnings)

\* A code that repeats a facet was answered without a VBA-DUPLICATE warning:
\* the facet is implicit in the base term and both copies were removed.
C12_Witness ==
    \E o \in Returned :
        /\ passesShape(o.code)
        /\ repeatedFacets(facetsOf(o.code)) # {}
        /\ hasWarning(o.result, {"VBA-IMPLICIT"}, "HIGH")
        /\ duplicateWarned(o.result.warnings) = {}

\* The terms a code names: its base term and the descriptors of its facets.
termsNamed(code) ==
    {baseOf(code)} \cup { descriptorOf(facetsOf(code)[k]) : k \in 1..Len(facetsOf(code)) }

deprecatedTerms(code) ==
    { t \in termsNamed(code) : dbTerm(t) # NoRow /\ dbTerm(t).deprecated }

dismissedTerms(code) ==
    { t \in termsNamed(code) : dbTerm(t) # NoRow /\ dbTerm(t).status = "DISMISSED" }

identifies(result, rule, term) ==
    \E i \in 1..Len(result.warnings) :
        result.warnings[i].rule = rule /\ result.warnings[i].about = term

\* C13: BR20 is emitted when the base term or the term of an explicit facet
\* descriptor is deprecated, BR21 when one of them is dismissed, and the
\* warning names the term that triggered it.
C13_DeprecatedDismissedReported ==
    \A o \in Returned :
        passesShape(o.code)
            => /\ \A t \in deprecatedTerms(o.code) : identifies(o.result, "BR20", t)
               /\ \A t \in dismissedTerms(o.code) : identifies(o.result, "BR21", t)

\* The part of C13 about the base term: a deprecated base term gets BR20 and
\* a dismissed one BR21, each naming the base term.
C13_BaseTermPart ==
    \A o \in Returned :
        passesShape(o.code)
            => /\ baseOf(o.code) \in deprecatedTerms(o.code)
                      => identifies(o.result, "BR20", baseOf(o.code))
               /\ baseOf(o.code) \in dismissedTerms(o.code)
                      => identifies(o.result, "BR21", baseOf(o.code))

\* A facet with a deprecated descriptor was accepted by the structural checks
\* and the result holds no BR20.
C13_Witness ==
    \E o \in Returned :
        /\ passesShape(o.code)
        /\ \E k \in 1..Len(facetsOf(o.code)) :
               descriptorOf(facetsOf(o.code)[k]) \in deprecatedTerms(o.code)
        /\ ~hasWarning(o.result, StructuralRuleIds, "ERROR")
        /\ \A i \in 1..Len(o.result.warnings) : o.result.warnings[i].rule # "BR20"

hasRule(result, rule) ==
    \E i \in 1..Len(result.warnings) : result.warnings[i].rule = rule

\* C14: a result holds the BR22 success message only if its base term is not
\* a hierarchy term and it holds no warning of severity HIGH or ERROR, from
\* the structural checks or from the business rules.
C14_SuccessOnlyWithoutBlockingWarning ==
    \A o \in Returned :
        hasRule(o.result, "BR22")
            => /\ o.result.baseTerm.detail_level # "H"
               /\ ~hasSeverity(o.result, {"HIGH", "ERROR"})

\* The part of C14 about the base term: BR22 is never given for a hierarchy
\* term.
C14_HierarchyPart ==
    \A o \in Returned :
        hasRule(o.result, "BR22") => o.result.baseTerm.detail_level # "H"

\* BR22 next to a HIGH warning of a business rule that runs after it.
C14_Witness ==
    \E o \in Returned :
        /\ hasRule(o.result, "BR22")
        /\ hasWarning(o.result, {"BR25"}, "HIGH")
        /\ o.result.valid = FALSE

\* The facets of a result (those left after implicit removal and descriptor
\* validation) that belong to group g.
survivingOfGroup(result, g) == facetsOfGroup(result.facets, g)

\* The well-formed facets of the catalogue that are not of group F01 or F27.
OtherGroupFragments ==
    { f \in Fragments : groupOf(f) \notin {<<"F", "0", "1">>, <<"F", "2", "7">>}
                          /\ dbTerm(descriptorOf(f)) # NoRow }

\* `code` with one more facet at its end.
appendFacet(code, f) ==
    code \o (IF facetsOf(code) = <<>> THEN <<"#">> ELSE <<"$">>) \o f

compositeBase(o) ==
    /\ passesShape(o.code)
    /\ o.result.baseTerm.type \in {"c", "s"}

RECURSIVE reportAncestorsOf(_, _)
reportAncestorsOf(code, fuel) ==
    LET row == dbHierRow(code, <<"r", "e", "p", "o", "r", "t">>)
    IN  IF fuel = 0 \/ row = NoRow \/ row.parent_code = Null THEN {}
        ELSE {row.parent_code} \cup reportAncestorsOf(row.parent_code, fuel - 1)

\* The forbidden-process table has a record (g, process) with g the term or
\* one of its ancestors in the reporting hierarchy.
forbiddenFor(code, process) ==
    \E i \in 1..Len(ForbiddenProcessesTable) :
        /\ ForbiddenProcessesTable[i].forbiddenProcessCode = process
        /\ ForbiddenProcessesTable[i].rootGroupCode
               \in {code} \cup reportAncestorsOf(code, Cardinality(TermHierarchiesTable))

rawBase(o) ==
    /\ passesShape(o.code)
    /\ o.result.baseTerm.type = "r"

ordinalFor(code, process) ==
    LET hits == { i \in 1..Len(ForbiddenProcessesTable) :
                    /\ ForbiddenProcessesTable[i].forbiddenProcessCode = process
                    /\ ForbiddenProcessesTable[i].rootGroupCode
                           \in {code} \cup reportAncestorsOf(code, Cardinality(TermHierarchiesTable)) }
    IN  IF hits = {} THEN 0
        ELSE ForbiddenProcessesTable[CHOOSE i \in hits : \A j \in hits : i <= j].ordinalCode

\* The F28 processes of an answered code: those implicit in its base term,
\* then the explicit ones of the result.
implicitProcessesOf(o) ==
    facetsOfGroup(implicitFacetsOf(dbTerm(baseOf(o.code))), <<"F", "2", "8">>)

explicitProcessesOf(o) == survivingOfGroup(o.result, <<"F", "2", "8">>)

\* Two or more of them share the non-zero integer ordinal n (in tenths) and
\* one of those is explicit.
sharesIntegerOrdinal(o, n) ==
    LET imp == SelectSeq(implicitProcessesOf(o),
                   LAMBDA f : ordinalFor(baseOf(o.code), descriptorOf(f)) = n)
        exp == SelectSeq(explicitProcessesOf(o),
                   LAMBDA f : ordinalFor(baseOf(o.code), descriptorOf(f)) = n)
    IN  n # 0 /\ n % 10 = 0 /\ Len(imp) + Len(exp) >= 2 /\ exp # <<>>

derivativeBase(o) ==
    /\ passesShape(o.code)
    /\ o.result.baseTerm.type = "d"

\* C17: for a derivative base term BR26 is given exactly when two or more
\* F28 processes, implicit or explicit, share a non-zero integer ordinal and
\* one of them is explicit; a process with ordinal 0 or none never counts.
C17_MutuallyExclusiveProcesses ==
    \A o \in Returned :
        derivativeBase(o)
            => (hasRule(o.result, "BR26")
                  <=> \E i \in 1..Len(ForbiddenProcessesTable) :
                         sharesIntegerOrdinal(o, ForbiddenProcessesTable[i].ordinalCode))

\* The part of C17 about ordinal 0: a derivative none of whose processes has
\* a non-zero ordinal gets no BR26.
C17_ZeroOrdinalPart ==
    \A o \in Returned :
        (/\ derivativeBase(o)
         /\ \A k \in 1..Len(implicitProcessesOf(o)) :
                ordinalFor(baseOf(o.code), descriptorOf(implicitProcessesOf(o)[k])) = 0
         /\ \A k \in 1..Len(explicitProcessesOf(o)) :
                ordinalFor(baseOf(o.code), descriptorOf(explicitProcessesOf(o)[k])) = 0)
            => ~hasRule(o.result, "BR26")

\* A derivative submitted without any facet was answered with BR26: its two
\* implicit processes share ordinal 1.
C17_Witness ==
    \E o \in Returned :
        /\ derivativeBase(o)
        /\ facetsOf(o.code) = <<>>
        /\ Len(implicitProcessesOf(o)) = 2
        /\ hasWarning(o.result, {"BR26"}, "HIGH")
        /\ o.result.valid = FALSE

\* The terms above `code` in a hierarchy, read from the term_hierarchies
\* table.
RECURSIVE ancestorsIn(_, _, _)
ancestorsIn(code, hierarchyCode, fuel) ==
    LET row == dbHierRow(code, hierarchyCode)
    IN  IF fuel = 0 \/ row = NoRow \/ row.parent_code = Null THEN {}
        ELSE {row.parent_code} \cup ancestorsIn(row.parent_code, hierarchyCode, fuel - 1)

siblingsIn(code1, code2, hierarchyCode) ==
    LET row1 == dbHierRow(code1, hierarchyCode)
        row2 == dbHierRow(code2, hierarchyCode)
    IN  /\ row1 # NoRow /\ row2 # NoRow
        /\ row1.parent_code # Null /\ row1.parent_code = row2.parent_code

\* The explicit facet is less detailed than an implicit facet of its group:
\* its descriptor is an ancestor of the implicit descriptor, and not a
\* sibling, in the hierarchy of the group.
lessDetailedThanImplicit(code, explicit) ==
    \E k \in 1..Len(implicitFacetsOf(dbTerm(baseOf(code)))) :
        LET implicit == implicitFacetsOf(dbTerm(baseOf(code)))[k]
            hierarchyCode == hierarchyMap(groupOf(explicit))
        IN  /\ groupOf(implicit) = groupOf(explicit)
            /\ descriptorOf(explicit)
                   \in ancestorsIn(descriptorOf(implicit), hierarchyCode,
                                   Cardinality(TermHierarchiesTable))
            /\ ~siblingsIn(descriptorOf(explicit), descriptorOf(implicit), hierarchyCode)

\* C18: BR16 is given about an explicit facet G.e exactly when the base term
\* has an implicit facet G.i of the same group with e an ancestor of i, and
\* not a sibling of i, in the hierarchy the facet-group table assigns to G
\* ('process' for F28, 'racsource' for F27).
C18_LessDetailedThanImplicit ==
    \A o \in Returned :
        passesShape(o.code)
            => \A k \in 1..Len(o.result.facets) :
                   identifies(o.result, "BR16", descriptorOf(o.result.facets[k]))
                       <=> lessDetailedThanImplicit(o.code, o.result.facets[k])

\* What the code does instead: no answer holds BR16, since no hierarchy is
\* named after a facet group.
C18_NeverGiven ==
    \A o \in Returned : ~hasRule(o.result, "BR16")

\* An explicit process that is the parent, in 'process', of the implicit
\* process of the base term was answered without BR16.
C18_Witness ==
    \E o \in Returned :
        /\ passesShape(o.code)
        /\ \E k \in 1..Len(o.result.facets) :
               /\ groupOf(o.result.facets[k]) = <<"F", "2", "8">>
               /\ lessDetailedThanImplicit(o.code, o.result.facets[k])
        /\ ~hasRule(o.result, "BR16")

\* C19: for a raw-commodity or derivative base term BR12 (LOW) is given
\* whenever an explicit F04 facet is present, and it is never given for a
\* base term of another type.
C19_IngredientFacetOnRawOrDerivative ==
    \A o \in Returned :
        passesShape(o.code)
            => /\ (/\ o.result.baseTerm.type \in {"r", "d"}
                   /\ survivingOfGroup(o.result, <<"F", "0", "4">>) # <<>>)
                      => hasWarning(o.result, {"BR12"}, "LOW")
               /\ o.result.baseTerm.type \notin {"r", "d"}
                      => ~hasRule(o.result, "BR12")

\* What the code gives instead: BR12 only about an explicit F04 facet of a
\* base term that is not composite and has an implicit F04 facet.
C19_OnlyWithImplicitIngredient ==
    \A o \in Returned :
        hasRule(o.result, "BR12")
            => /\ o.result.baseTerm.type \notin {"c", "s"}
               /\ survivingOfGroup(o.result, <<"F", "0", "4">>) # <<>>
               /\ facetsOfGroup(implicitFacetsOf(o.result.baseTerm), <<"F", "0", "4">>) # <<>>

\* A raw commodity with an explicit F04 facet of the catalogue was answered
\* as valid, without BR12.
C19_Witness ==
    \E o \in Returned :
        /\ passesShape(o.code)
        /\ o.result.baseTerm.type = "r"
        /\ survivingOfGroup(o.result, <<"F", "0", "4">>) # <<>>
        /\ ~hasRule(o.result, "BR12")
        /\ o.result.valid = TRUE

\* How many warnings of the given rules a result holds.
ruleCount(result, rules) ==
    Cardinality({ i \in 1..Len(result.warnings) : result.warnings[i].rule \in rules })

inExposure(code) == dbHierRow(code, <<"e", "x", "p", "o">>) # NoRow

FacetGroupIds ==
    { <<"F", d1, d2>> : d1 \in {"0", "1", "2", "3"}, d2 \in DigitChars }
    \ ({ <<"F", "0", "0">>, <<"F", "0", "5">>, <<"F", "1", "3">>, <<"F", "1", "4">>,
          <<"F", "1", "5">>, <<"F", "1", "6">> }
        \cup { <<"F", "3", d2>> : d2 \in {"5", "6", "7", "8", "9"} })

\* The facet names a group of the table and a descriptor of the catalogue
\* that is in the hierarchy of the group.
inOwnHierarchy(facet) ==
    /\ groupOf(facet) \in FacetGroupIds
    /\ dbTerm(descriptorOf(facet)) # NoRow
    /\ dbHierRow(descriptorOf(facet), hierarchyMap(groupOf(facet))) # NoRow

reportedBy(result, rules, facet) ==
    \E i \in 1..Len(result.warnings) :
        /\ result.warnings[i].rule \in rules
        /\ result.warnings[i].severity = "ERROR"
        /\ result.warnings[i].about = facet

\* C21: every facet of result.facets has a group id of the facet-group table
\* and a descriptor of the catalogue that belongs to the hierarchy of the
\* group; an explicit facet that fails either check gets an ERROR warning
\* (VBA-FACET404 or VBA-CATEGORY), is left out of result.facets and makes the
\* result not valid.
C21_FacetsInOwnHierarchy ==
    \A o \in Returned :
        /\ \A k \in 1..Len(o.result.facets) : inOwnHierarchy(o.result.facets[k])
        /\ passesShape(o.code)
              => \A k \in 1..Len(facetsOf(o.code)) :
                     ~inOwnHierarchy(facetsOf(o.code)[k])
                         => /\ reportedBy(o.result, {"VBA-FACET404", "VBA-CATEGORY"},
                                          facetsOf(o.code)[k])
                            /\ ~arrIncludes(o.result.facets, facetsOf(o.code)[k])
                            /\ o.result.valid = FALSE

\* A descriptor of the catalogue under a group whose hierarchy it is not in
\* was reported with VBA-CATEGORY and left out, the other facet kept.
C21_Witness ==
    \E o \in Returned :
        /\ passesShape(o.code)
        /\ \E k \in 1..Len(facetsOf(o.code)) :
               /\ dbTerm(descriptorOf(facetsOf(o.code)[k])) # NoRow
               /\ ~inOwnHierarchy(facetsOf(o.code)[k])
               /\ reportedBy(o.result, {"VBA-CATEGORY"}, facetsOf(o.code)[k])
        /\ Len(o.result.facets) = 1
        /\ o.result.valid = FALSE

\* The term and the hierarchy a cache key was made of.
keyTerm(key) == split(key, {":"})[1]
keyHierarchy(key) == split(key, {":"})[2]

\* C22: the ancestor cache is read-only after warm-up: whatever validations
\* have run, the value cached for (code, hierarchy) is the list of ancestors
\* the query gave when it was first computed; no forbidden-process or ordinal
\* lookup extends or reorders it.
C22_CacheReadOnly ==
    \A key \in DOMAIN ancestorCache :
        ancestorCache[key] = queryAncestors(keyTerm(key), keyHierarchy(key))

\* After a batch of two codes the entry cached for a base term in 'report'
\* holds the base term itself, more than once, after its ancestors.
C22_Witness ==
    /\ batch.status = "returned"
    /\ \E key \in DOMAIN ancestorCache :
           /\ keyHierarchy(key) = <<"r", "e", "p", "o", "r", "t">>
           /\ ~arrIncludes(queryAncestors(keyTerm(key), keyHierarchy(key)), keyTerm(key))
           /\ Len(SelectSeq(ancestorCache[key], LAMBDA a : a = keyTerm(key))) >= 2

\* The terms and the hierarchies of the catalogue.
TermCodes == { t.term_code : t \in TermsTable }
HierarchyCodes == { h.hierarchy_code : h \in TermHierarchiesTable }

\* C23: the ancestor relation is irreflexive: isChildOf(x, x, H) and
\* isParentOf(x, x, H) are false for every term x and hierarchy H, whatever
\* the ancestor cache holds by then.
C23_AncestorIrreflexive ==
    \A x \in TermCodes, h \in HierarchyCodes :
        /\ ~isChildOf(ancestorCache, x, x, h).r
        /\ ~isParentOf(ancestorCache, x, x, h).r

\* The cache holds a term in its own ancestor list, and isChildOf still
\* answers false for the term and itself.
C23_Witness ==
    \E x \in TermCodes :
        /\ cacheKey(x, <<"r", "e", "p", "o", "r", "t">>) \in DOMAIN ancestorCache
        /\ arrIncludes(ancestorCache[cacheKey(x, <<"r", "e", "p", "o", "r", "t">>)], x)
        /\ ~isChildOf(ancestorCache, x, x, <<"r", "e", "p", "o", "r", "t">>).r

\* The rows of walk's catalogue in the hierarchy it is asked about.
walkHierarchyRows == { h \in walk.table : h.hierarchy_code = walk.hierarchyCode }

walkProduced == IF walk.status \in {"querying", "returned"} THEN walk.rows ELSE {}

\* C24: the query of getAncestors is bounded whatever the catalogue, a cycle
\* of parent links included: no row of the traversal lies deeper than the
\* hierarchy has rows, so that no code is reached a second time.
C24_TraversalBounded ==
    \A a \in walkProduced : a.level <= Cardinality(walkHierarchyRows)

\* C24, on the catalogue of the validator: the query returns what
\* queryAncestors gives.
C24_QueryOnValidCatalogue ==
    (walk.status = "returned" /\ walk.table = TermHierarchiesTable)
        => walk.result = queryAncestors(walk.termCode, walk.hierarchyCode)

\* A run on the cyclic 'process' hierarchy that is still going on after more
\* levels than the hierarchy has rows, A07KQ reached at several levels and no
\* error given.
C24_Witness ==
    /\ walk.status = "querying"
    /\ walk.table = relinked(<<"A", "0", "7", "X", "S">>, <<"p", "r", "o", "c", "e", "s", "s">>, <<"A", "0", "7", "K", "Q">>)
    /\ walk.hierarchyCode = <<"p", "r", "o", "c", "e", "s", "s">>
    /\ walk.queue # {}
    /\ \E a, b \in walk.rows :
          /\ a.ancestor_code = b.ancestor_code
          /\ a.level < b.level
          /\ b.level > Cardinality(walkHierarchyRows)

\* A run on the catalogue of the validator that has returned two ancestors.
C24_ReturnedWitness ==
    /\ walk.status = "returned"
    /\ walk.table = TermHierarchiesTable
    /\ Len(walk.result) >= 2

rankOf(rule) == CHOOSE k \in 1..Len(BusinessRuleIds) : BusinessRuleIds[k] = rule

isBusinessWarning(w) ==
    w.type = "BUSINESS_RULE" /\ \E k \in 1..Len(BusinessRuleIds) : BusinessRuleIds[k] = w.rule

warningsOfRule(warnings, rule) ==
    SelectSeq(warnings, LAMBDA w : w.type = "BUSINESS_RULE" /\ w.rule = rule)

\* What the rules on the base term alone give when each is run by itself on
\* an empty warning list.
aloneOnBaseTerm(v, baseTerm, rule) ==
    CASE rule = "BR20" -> checkBR20(v, baseTerm, [w |-> <<>>, c |-> EmptyCache]).w
      [] rule = "BR21" -> checkBR21(v, baseTerm, [w |-> <<>>, c |-> EmptyCache]).w
      [] rule = "BR23" -> checkBR23(v, baseTerm, [w |-> <<>>, c |-> EmptyCache]).w
      [] rule = "BR24" -> checkBR24(v, baseTerm, [w |-> <<>>, c |-> EmptyCache]).w

\* C25: the business rules are evaluated in the order of their ids and none
\* is skipped because of an earlier warning: the business-rule warnings of a
\* result are ordered by non-decreasing rule id, and each of BR20, BR21, BR23
\* and BR24 gives in the result exactly what it gives when run by itself
\* (BR22, the success message, looks at the list by design).
C25_RuleOrderNoShortCircuit ==
    \A o \in Returned :
        /\ \A i, j \in 1..Len(o.result.warnings) :
               (i < j /\ isBusinessWarning(o.result.warnings[i])
                      /\ isBusinessWarning(o.result.warnings[j]))
                   => rankOf(o.result.warnings[i].rule) <= rankOf(o.result.warnings[j].rule)
        /\ o.result.baseTerm # NoRow
               => \A rule \in {"BR20", "BR21", "BR23", "BR24"} :
                      warningsOfRule(o.result.warnings, rule)
                          = aloneOnBaseTerm(validator, o.result.baseTerm, rule)

\* A result where a rule up to BR17 gave a HIGH warning and a rule from BR19 on
\* gave its warning after it.
C25_Witness ==
    \E o \in Returned :
        \E i, j \in 1..Len(o.result.warnings) :
            /\ i < j
            /\ isBusinessWarning(o.result.warnings[i])
            /\ isBusinessWarning(o.result.warnings[j])
            /\ o.result.warnings[i].severity = "HIGH"
            /\ rankOf(o.result.warnings[i].rule) <= rankOf("BR17")
            /\ o.result.warnings[j].rule \in {"BR20", "BR21", "BR23", "BR24"}


\* C26: the reference data is loaded exactly once, at startup: whatever the
\* calls and their contexts, no request loads the data files again.
C26_DataLoadedOnce == dataLoads <= 1

\* A validateCode call under another context than 'ICT' has been answered
\* after the data files were loaded for a validator of its own.
C26_Witness ==
    /\ phase = "served"
    /\ req # NoRow
    /\ req.context # "ICT"
    /\ res # NoRow
    /\ dataLoads = 2

\* C27: a validateCode call that ran interleaved with another on the same
\* validator returns what it returns when run alone on a freshly initialized
\* validator.
C27_InterleavedAsAlone ==
    \A i \in DOMAIN calls :
        calls[i].at = "done"
            => calls[i].result = validateCode(validator, EmptyCache, calls[i].code).res

\* Two calls with warnings from the business rules have returned after their
\* rules ran interleaved, on a cache where an entry holds its own term.
C27_Witness ==
    /\ Len(calls) = 2
    /\ \A i \in DOMAIN calls :
          /\ calls[i].at = "done"
          /\ calls[i].mixed
          /\ calls[i].w # <<>>
    /\ \E key \in DOMAIN ancestorCache :
          ancestorCache[key] # queryAncestors(keyTerm(key), keyHierarchy(key))

\* What the service answers for the code when the context is 'ICT' or left
\* out: the result of its own validator.
defaultContextResult(code) == validateCode(validator, EmptyCache, code).res

sameOutcome(a, b) ==
    IF a = Threw \/ b = Threw THEN a = b
    ELSE /\ a.valid = b.valid
         /\ a.severity = b.severity
         /\ a.warnings = b.warnings

\* The call under another context than 'ICT' that has been answered.
otherContextAnswered ==
    phase = "served" /\ validator # NoRow /\ req # NoRow /\ req.context # "ICT"

\* C28: the context never changes the outcome: a call under DCF, internal or
\* external gets the valid flag, severity and warnings that the same code
\* gets under 'ICT' or without a context, and no result holds a BR14 or BR15
\* warning.
C28_ContextNeverChangesOutcome ==
    /\ otherContextAnswered => sameOutcome(res, defaultContextResult(req.code))
    /\ \A o \in Returned : ~hasRule(o.result, "BR14") /\ ~hasRule(o.result, "BR15")
    /\ (otherContextAnswered /\ res # Threw) => ~hasRule(res, "BR14") /\ ~hasRule(res, "BR15")

\* The part of C28 about BR14 and BR15: no result holds either, whatever the
\* context.
C28_NoReservedRuleWarning ==
    /\ \A o \in Returned : ~hasRule(o.result, "BR14") /\ ~hasRule(o.result, "BR15")
    /\ (otherContextAnswered /\ res # Threw) => ~hasRule(res, "BR14") /\ ~hasRule(res, "BR15")

\* A call under 'DCF' was answered with fewer warnings than the same code
\* gets under 'ICT'.
C28_Witness ==
    /\ otherContextAnswered
    /\ req.context = "DCF"
    /\ res # Threw
    /\ defaultContextResult(req.code) # Threw
    /\ Len(res.warnings) < Len(defaultContextResult(req.code).warnings)

\* The answer of the call that has been served.
served == IF phase = "served" /\ res # NoRow /\ res # Threw THEN {res} ELSE {}

\* C29: whatever levels the rule-message file spells, a result is valid
\* exactly when its hardWarnings bucket is empty.
C29_ValidIffNoHardWarning ==
    \A result \in served : result.valid = (result.hardWarnings = <<>>)

\* C29 with the standard file: valid exactly when hardWarnings is empty.
C29_StandardFilePart ==
    \A o \in Returned : o.result.valid = (o.result.hardWarnings = <<>>)

\* A file gives a rule the level 'high' or 'High': the warning is in
\* hardWarnings, the result is valid and its severity is not HIGH.
C29_Witness ==
    \E result \in served :
        /\ result.valid = TRUE
        /\ result.severity \in {"NONE", "LOW"}
        /\ \E i \in 1..Len(result.hardWarnings) :
               result.hardWarnings[i].severity \in {"high", "High"}

\* The lists of candidate parents tried for the term c: every single term,
\* and every term followed by c.
parentLists(c) == { <<p>> : p \in TermCodes } \cup { <<p, c>> : p \in TermCodes }

agreesOn(c, parents, h) ==
    isChildOfAny(ancestorCache, c, parents, h).r
        = (\E k \in 1..Len(parents) : isChildOf(ancestorCache, c, parents[k], h).r)

\* C30: isChildOfAny(c, P, H) is true exactly when isChildOf(c, p, H) is true
\* for some p of P, whatever the ancestor cache holds by then: for the terms
\* the cache has an entry for, with every list of parentLists, and for every
\* term and hierarchy with the list that holds the term alone.
C30_AnyAgreesWithEach ==
    /\ \A key \in DOMAIN ancestorCache :
          \A parents \in parentLists(keyTerm(key)) :
              agreesOn(keyTerm(key), parents, keyHierarchy(key))
    /\ \A c \in TermCodes, h \in HierarchyCodes : agreesOn(c, <<c>>, h)

\* On a fresh cache the two agree: the part of C30 that does not depend on
\* what the cache holds.
C30_FreshCachePart ==
    \A c \in TermCodes, h \in HierarchyCodes :
        \A parents \in { <<c>>, <<<<"A", "0", "0", "0", "J">>, c>>, <<<<"A", "0", "0", "0", "J">>>>, <<<<"A", "0", "0", "0", "L">>>> } :
            isChildOfAny(EmptyCache, c, parents, h).r
                = (\E k \in 1..Len(parents) : isChildOf(EmptyCache, c, parents[k], h).r)

\* The cache holds an entry with its own term, and for that term
\* isChildOfAny(c, [c], H) is true while isChildOf(c, c, H) is false.
C30_Witness ==
    \E key \in DOMAIN ancestorCache :
        /\ isChildOfAny(ancestorCache, keyTerm(key), <<keyTerm(key)>>, keyHierarchy(key)).r
        /\ ~isChildOf(ancestorCache, keyTerm(key), keyTerm(key), keyHierarchy(key)).r
        /\ ancestorCache[key] # queryAncestors(keyTerm(key), keyHierarchy(key))
=============================================================================
